---- MODULE Spec2Model ----
(***************************************************************************)
(* Spectrogram analysis pipeline of wavesurfer.js: the FFT engine, the     *)
(* quantizer, the filter banks, the frame scheduler, the resampler, the    *)
(* worker message handlers, the plugin's getFrequencies, drawSpectrogram   *)
(* and render scheduling, the frequency scales, the animation-frame Timer  *)
(* and the segment manager of the windowed plugin, as state machines.      *)
(*                                                                         *)
(* Number representation (JavaScript numbers are IEEE doubles, the typed   *)
(* arrays are Float32/Uint8):                                              *)
(*   - a sample is an integer count of 1/250;                              *)
(*   - a window weight is an integer count of 1/4 (exact for the window    *)
(*     functions and FFT sizes that are modelled);                         *)
(*   - a magnitude is an integer count of 1/1000, the square root being    *)
(*     truncated;                                                          *)
(*   - a level is an integer count of dB: 20*log10 truncated to the dB     *)
(*     below, and rounded up to the dB above where it is compared with the *)
(*     gain ceiling, so that both comparisons of the quantizer are exact;  *)
(*     the ramp is computed from the truncated level and is exact where    *)
(*     the magnitude is a power of ten;                                    *)
(*   - the byte arrays are exact.                                          *)
(***************************************************************************)
EXTENDS Integers, Sequences, FiniteSets, TLC

VARIABLES
  \* the worker and its message queues
  worker,   \* which worker script runs: its onmessage and calculateFrequencies
  fft,      \* the worker's module-level FFT instance ("let fft = null")
  inbox,    \* messages posted to the worker and not yet handled
  outbox,   \* messages the worker posted back, in order
  served,   \* history: per handled calculateFrequencies message, the engine that served it
  posted,   \* number of messages posted so far (the next message id)
  \* the frame loop of one channel, one iteration per step
  pc,       \* "idle" before the loop, "frames" inside it, "done" after it
  plan,     \* what the loop was entered with: path, fftSamples, range, overlap, hopSize
  currentOffset,  \* the loop variable (sample in the workers)
  columns,  \* the offsets of the frames pushed to channelFreq so far
  \* the quantizer
  quantized,  \* the last spectrum converted, with its gain, range and colour indices
  \* the matrix on the main thread
  analysis,   \* the outcome of the last calculateFrequencies call
  resampled,   \* the outcome of the last efficientResample call on its matrix
  \* one FFT engine instance and the calls made on it
  engine,     \* the FFT object, or None before a constructor returned one
  calls,       \* history: the calculateSpectrum calls on the instance since its construction
  \* one spectrogram plugin instance on the main thread
  plugin,     \* its fields: the options kept by the constructor, the FFT backends
  returned,    \* history: the getFrequencies calls on the instance and what they returned
  \* a filter bank of the plugin's fft module
  builtBank,    \* the last bank built, with the arguments it was built from
  logSpectrum,   \* what applyFilterBank returned for it last, with the spectrum given
  \* the plugin's drawing of a matrix
  cache,      \* cachedResampledData and cachedWidth
  drawn,       \* history: the drawSpectrogram calls, with the data each one rendered
  \* a channel matrix resampled down and back up
  tripFrom,   \* the matrix resampleChannel starts from, and options.performanceMode
  tripDown,   \* the last resampleChannel call that narrowed it: targetWidth and result
  tripUp,      \* the resampleChannel call that widened that result back, if any
  \* the plugin's rendering on redraw events
  view,       \* decoded audio, zoom and width of the wavesurfer; caches and flags of the plugin
  timers,      \* the window.setTimeout callbacks that are pending
  shown,       \* the last drawSpectrogram call: what it was given and what it rendered
  owed,        \* whether a redraw event arrived and no render has started since
  sinceClear,   \* whether clearCache was called and no render of decoded audio has drawn since
  \* one frequency converted to scale units and back
  conv,         \* the scale and hz given, what hzToScale returned and what scaleToHz made of that
  \* one Timer instance and the animation frames of the page
  ticker,      \* rafId, the animation frames that are scheduled, and how many were requested
  stopped,     \* whether stop() returned and start() was not called since
  lateTick,     \* whether a tick was emitted while stopped
  \* the segments of the windowed plugin
  segments,    \* the segments kept: sample range and state of each
  visible      \* the last visibility change: the range asked for, the segments ready before it and those it created

workerVars == <<worker, fft, inbox, outbox, served, posted>>
frameVars == <<pc, plan, currentOffset, columns>>
quantVars == <<quantized>>
matrixVars == <<analysis, resampled>>
engineVars == <<engine, calls>>
pluginVars == <<plugin, returned>>
bankVars == <<builtBank, logSpectrum>>
drawVars == <<cache, drawn>>
tripVars == <<tripFrom, tripDown, tripUp>>
renderVars == <<view, timers, shown, owed, sinceClear>>
scaleVars == <<conv>>
rafVars == <<ticker, stopped, lateTick>>
segVars == <<segments, visible>>
vars == <<workerVars, frameVars, quantVars, matrixVars, engineVars, pluginVars, bankVars, drawVars, tripVars, renderVars, scaleVars, rafVars, segVars>>

\* What the actions of one part leave alone: the variables of the other parts.
exceptWorker == <<frameVars, quantVars, matrixVars, engineVars, pluginVars, bankVars, drawVars, tripVars, renderVars, scaleVars, rafVars, segVars>>
exceptFrame == <<workerVars, quantVars, matrixVars, engineVars, pluginVars, bankVars, drawVars, tripVars, renderVars, scaleVars, rafVars, segVars>>
exceptQuant == <<workerVars, frameVars, matrixVars, engineVars, pluginVars, bankVars, drawVars, tripVars, renderVars, scaleVars, rafVars, segVars>>
exceptMatrix == <<workerVars, frameVars, quantVars, engineVars, pluginVars, bankVars, drawVars, tripVars, renderVars, scaleVars, rafVars, segVars>>
exceptEngine == <<workerVars, frameVars, quantVars, matrixVars, pluginVars, bankVars, drawVars, tripVars, renderVars, scaleVars, rafVars, segVars>>
exceptPlugin == <<workerVars, frameVars, quantVars, matrixVars, engineVars, bankVars, drawVars, tripVars, renderVars, scaleVars, rafVars, segVars>>
exceptBank == <<workerVars, frameVars, quantVars, matrixVars, engineVars, pluginVars, drawVars, tripVars, renderVars, scaleVars, rafVars, segVars>>
exceptDraw == <<workerVars, frameVars, quantVars, matrixVars, engineVars, pluginVars, bankVars, tripVars, renderVars, scaleVars, rafVars, segVars>>
exceptTrip == <<workerVars, frameVars, quantVars, matrixVars, engineVars, pluginVars, bankVars, drawVars, renderVars, scaleVars, rafVars, segVars>>
exceptRender == <<workerVars, frameVars, quantVars, matrixVars, engineVars, pluginVars, bankVars, drawVars, tripVars, scaleVars, rafVars, segVars>>
exceptScale == <<workerVars, frameVars, quantVars, matrixVars, engineVars, pluginVars, bankVars, drawVars, tripVars, renderVars, rafVars, segVars>>
exceptRaf == <<workerVars, frameVars, quantVars, matrixVars, engineVars, pluginVars, bankVars, drawVars, tripVars, renderVars, scaleVars, segVars>>
exceptSeg == <<workerVars, frameVars, quantVars, matrixVars, engineVars, pluginVars, bankVars, drawVars, tripVars, renderVars, scaleVars, rafVars>>

----------------------------------------------------------------------------
(* Bounds of the model *)

\* Messages a run posts to the worker.
MaxRequests == 2
\* Frames a run of the frame loop is followed for.
MaxFrames == 16
\* calculateSpectrum calls a run makes on one engine instance.
MaxCalls == 3
\* getFrequencies calls a run makes on one plugin instance.
MaxReturns == 2
\* drawSpectrogram calls a run makes on one plugin instance.
MaxDraws == 3
\* Events of the wavesurfer and calls of the application that a run makes on
\* one rendering plugin; the timer callbacks are not counted.
MaxEvents == 4
\* requestAnimationFrame calls a run makes for one Timer instance.
MaxRequested == 8
\* Length in samples of the audio the windowed plugin shows, and its buffer
\* margin in samples.
AudioSamples == 4
Margin == 1

----------------------------------------------------------------------------
(* Optional values: a key that is absent or undefined is <<>>, a present   *)
(* value v is <<v>>.                                                       *)

None == <<>>
Some(v) == <<v>>
IsSome(o) == Len(o) = 1

Max(a, b) == IF a >= b THEN a ELSE b
Min(a, b) == IF a <= b THEN a ELSE b
Abs(a) == IF a < 0 THEN -a ELSE a

\* Math.round of the rational num/den, den > 0: floor(x + 0.5).
Round(num, den) == (2 * num + den) \div (2 * den)

\* Math.sqrt, truncated: the largest r with r*r <= n.
RECURSIVE SqrtFrom(_, _, _)
SqrtFrom(n, lo, hi) ==
  IF lo >= hi THEN lo
  ELSE LET mid == (lo + hi + 1) \div 2
       IN IF mid * mid <= n THEN SqrtFrom(n, mid, hi) ELSE SqrtFrom(n, lo, mid - 1)

Sqrt(n) == SqrtFrom(n, 0, Min(n, 46340))

----------------------------------------------------------------------------
(* FFT engine *)

NoFFT == [bufferSize |-> 0, sampleRate |-> 0, windowFunc |-> "none", peakBand |-> 0, peak |-> 0]

\* The cases of the constructor's switch (windowFunc); 'undefined' is the unset option.
SupportedWindows ==
  {"bartlett", "bartlettHann", "blackman", "cosine", "gauss", "hamming", "hann",
   "undefined", "lanczoz", "rectangular", "triangular"}

\* this.windowValues[i], in quarters, for the windows whose weights are exact in
\* quarters at bufferSize 2 and 4:
\*   rectangular 1; triangular (2/N)*(N/2 - |i - (N-1)/2|);
\*   hann 0.5*(1 - cos(2*pi*i/(N-1))), with cos(0) = cos(2*pi) = 1 and
\*   cos(2*pi/3) = cos(4*pi/3) = -1/2.
windowValues(windowFunc, N, i) ==
  CASE windowFunc = "rectangular" -> 4
    [] windowFunc = "triangular" -> (4 * N - 4 * Abs(2 * i - (N - 1))) \div N
    [] windowFunc \in {"hann", "undefined"} ->
         IF N = 4 /\ i \in {1, 2} THEN 3 ELSE 0

\* The FFT object after its constructor returned.
NewFFT(bufferSize, sampleRate, windowFunc) ==
  [bufferSize |-> bufferSize, sampleRate |-> sampleRate, windowFunc |-> windowFunc,
   peakBand |-> 0, peak |-> 0]

\* The constructor's bit-reversal loop; a write past the end of the Uint32Array
\* is dropped.
RECURSIVE ReverseFill(_, _, _, _, _)
ReverseFill(table, i, limit, bit, N) ==
  IF i >= limit THEN table
  ELSE ReverseFill(IF i + limit < N THEN [table EXCEPT ![i + limit] = table[i] + bit] ELSE table,
                   i + 1, limit, bit, N)

RECURSIVE ReverseLoop(_, _, _, _)
ReverseLoop(table, limit, bit, N) ==
  IF limit >= N THEN table
  ELSE ReverseLoop(ReverseFill(table, 0, limit, bit, N), 2 * limit, bit \div 2, N)

reverseTable(N) == ReverseLoop([i \in 0..(N - 1) |-> 0], 1, N \div 2, N)

\* cosTable[i] = cos(-pi/i) and sinTable[i] = sin(-pi/i), read at i = halfSize;
\* exact at halfSize 1 and 2, the stages of an FFT of size up to 4.
cosTable(i) == IF i = 1 THEN -1 ELSE 0
sinTable(i) == IF i = 2 THEN -1 ELSE 0

\* Math.pow(2, Math.floor(Math.log(bufferSize) / Math.LN2)) === bufferSize
RECURSIVE IsPowerOfTwo(_)
IsPowerOfTwo(n) ==
  IF n <= 0 THEN FALSE
  ELSE IF n = 1 THEN TRUE
  ELSE IF n % 2 = 1 THEN FALSE
  ELSE IsPowerOfTwo(n \div 2)

\* The innermost loop: while (i < bufferSize) { butterfly; i += halfSize << 1 }
RECURSIVE Butterfly(_, _, _, _, _, _)
Butterfly(st, i, halfSize, cr, ci, N) ==
  IF i >= N THEN st
  ELSE LET off == i + halfSize
           tr == cr * st.real[off] - ci * st.imag[off]
           ti == cr * st.imag[off] + ci * st.real[off]
       IN Butterfly([real |-> [st.real EXCEPT ![off] = st.real[i] - tr, ![i] = st.real[i] + tr],
                     imag |-> [st.imag EXCEPT ![off] = st.imag[i] - ti, ![i] = st.imag[i] + ti]],
                    i + 2 * halfSize, halfSize, cr, ci, N)

\* for (fftStep = 0; fftStep < halfSize; fftStep++), with the twiddle recurrence
RECURSIVE StepLoop(_, _, _, _, _, _)
StepLoop(st, fftStep, halfSize, cr, ci, N) ==
  IF fftStep >= halfSize THEN st
  ELSE StepLoop(Butterfly(st, fftStep, halfSize, cr, ci, N), fftStep + 1, halfSize,
                cr * cosTable(halfSize) - ci * sinTable(halfSize),
                cr * sinTable(halfSize) + ci * cosTable(halfSize), N)

\* while (halfSize < bufferSize) { ...; halfSize = halfSize << 1 }
RECURSIVE StageLoop(_, _, _)
StageLoop(st, halfSize, N) ==
  IF halfSize >= N THEN st
  ELSE StageLoop(StepLoop(st, 0, halfSize, 1, 0, N), 2 * halfSize, N)

\* mag = bSi * sqrt(rval*rval + ival*ival), bSi = 2 / bufferSize
Magnitude(rval, ival, N) == Sqrt(4 * (rval * rval + ival * ival)) \div N

RECURSIVE MagnitudeLoopLastReached(_, _, _, _)
MagnitudeLoopLastReached(acc, st, i, N) ==
  IF i >= N \div 2 THEN acc
  ELSE LET mag == Magnitude(st.real[i], st.imag[i], N)
       IN MagnitudeLoopLastReached([spectrum |-> Append(acc.spectrum, mag),
                                    peak |-> IF mag >= acc.peak THEN mag ELSE acc.peak,
                                    peakBand |-> IF mag >= acc.peak THEN i ELSE acc.peakBand],
                                   st, i + 1, N)

\* The magnitude loop with its running peak: acc is [spectrum, peak, peakBand].
RECURSIVE MagnitudeLoop(_, _, _, _)
MagnitudeLoop(acc, st, i, N) ==
  IF i >= N \div 2 THEN acc
  ELSE LET mag == Magnitude(st.real[i], st.imag[i], N)
       IN MagnitudeLoop([spectrum |-> Append(acc.spectrum, mag),
                         peak |-> IF mag > acc.peak THEN mag ELSE acc.peak,
                         peakBand |-> IF mag > acc.peak THEN i ELSE acc.peakBand],
                        st, i + 1, N)

\* A thrown value: an Error object (with its message) or a bare string.
ThrownError(msg) == [kind |-> "Error", message |-> msg]
ThrownString(msg) == [kind |-> "string", message |-> msg]

RejectedResettingPeak(e, msg) ==
  [thrown |-> Some(ThrownString(msg)), spectrum |-> <<>>,
   engine |-> [e EXCEPT !.peak = 0, !.peakBand = 0]]

\* calculateSpectrum throws the string msg before it touches the engine e.
Rejected(e, msg) ==
  [thrown |-> Some(ThrownString(msg)), spectrum |-> <<>>, engine |-> e]

\* FFT.calculateSpectrum(buffer) on engine e: the spectrum or the thrown value,
\* and the engine afterwards.
calculateSpectrum(e, buffer) ==
  LET N == e.bufferSize IN
  IF ~IsPowerOfTwo(N)
  THEN Rejected(e, "Invalid buffer size, must be a power of 2.")
  ELSE IF N # Len(buffer)
  THEN Rejected(e, "Supplied buffer is not the same size as defined FFT.")
  ELSE LET rt == reverseTable(N)
           st0 == [real |-> [i \in 0..(N - 1) |->
                               buffer[rt[i] + 1] * windowValues(e.windowFunc, N, rt[i])],
                   imag |-> [i \in 0..(N - 1) |-> 0]]
           st == StageLoop(st0, 1, N)
           acc == MagnitudeLoop([spectrum |-> <<>>, peak |-> e.peak, peakBand |-> e.peakBand],
                                st, 0, N)
       IN [thrown |-> None, spectrum |-> acc.spectrum,
           engine |-> [e EXCEPT !.peak = acc.peak, !.peakBand = acc.peakBand]]

----------------------------------------------------------------------------
(* Quantizer *)

\* ceil(1000 * 10^(k/20)) for k = 1..19: the least magnitude, in thousandths,
\* whose level 20*log10 is at least k dB.
DbSteps ==
  <<1123, 1259, 1413, 1585, 1779, 1996, 2239, 2512, 2819, 3163,
    3549, 3982, 4467, 5012, 5624, 6310, 7080, 7944, 8913>>

\* floor(20 * Math.log10(m / 1000)) for a magnitude of m thousandths, m >= 1
\* (exact below 10000).
RECURSIVE Log10dB(_)
Log10dB(m) ==
  IF m < 1000 THEN Log10dB(m * 10) - 20
  ELSE IF m >= 10000 THEN Log10dB(m \div 10) + 20
  ELSE Cardinality({k \in 1..19 : DbSteps[k] <= m})

RECURSIVE IsPowerOfTen(_)
IsPowerOfTen(m) ==
  IF m = 1 THEN TRUE
  ELSE IF m <= 0 \/ m % 10 # 0 THEN FALSE
  ELSE IsPowerOfTen(m \div 10)

\* magnitude = spectrum[j] > 1e-12 ? spectrum[j] : 1e-12
\* valueDB = 20 * Math.log10(magnitude), which is -240 at the floor 1e-12.
\* valueDB is the level truncated to whole dB and valueDBUp the level rounded
\* up: they are equal exactly when the level is a whole number of dB.
valueDB(m) == IF m > 0 THEN Log10dB(m) ELSE -240
valueDBUp(m) == IF m > 0 /\ ~IsPowerOfTen(m) THEN Log10dB(m) + 1 ELSE valueDB(m)

\* Storing a number into a Uint8Array element: ToUint8, the value modulo 2^8.
ToUint8(x) == x % 256

\* One element of the colour-index column: the if / else if / else of the
\* conversion loop and the store into the Uint8Array. With whole gainDB and
\* rangeDB the two comparisons are exact: valueDB < t iff its truncation is
\* below t, valueDB > t iff its rounding up is above t. The ramp is computed
\* from the truncated level.
convertToColor(m, gainDB, rangeDB) ==
  IF valueDB(m) < -(gainDB + rangeDB) THEN ToUint8(0)
  ELSE IF valueDBUp(m) > -gainDB THEN ToUint8(255)
  ELSE ToUint8(Round((valueDB(m) + gainDB) * 255, rangeDB))

\* The whole conversion loop over a spectrum.
convertSpectrumToColors(spectrum, gainDB, rangeDB) ==
  [j \in 1..Len(spectrum) |-> convertToColor(spectrum[j], gainDB, rangeDB)]

----------------------------------------------------------------------------
(* Filter bank *)

\* scaleToHz(filterMin + (i / numFilters) * (filterMax - filterMin)) in Hz, truncated,
\* at the two positions a bank of up to two filters has: i = 0 (the bottom of
\* the scale) and i / numFilters = 1/2, where 10^(x/2) is the square root of 10^x:
\*   mel          700 * (sqrt(1 + (sampleRate/2)/700) - 1)
\*   logarithmic  sqrt(sampleRate/2), and 10^log10(max(1, 0)) = 1 at the bottom
\*   erb          (sqrt(1 + (sampleRate/2) * 0.00437) - 1) / 0.00437
filterHz(scale, i, sampleRate) ==
  CASE scale = "mel" -> IF i = 0 THEN 0 ELSE Sqrt(490000 + 350 * sampleRate) - 700
    [] scale = "logarithmic" -> IF i = 0 THEN 1 ELSE Sqrt(sampleRate \div 2)
    [] scale = "erb" ->
         IF i = 0 THEN 0
         ELSE ((Sqrt(1000000 + 2185 * sampleRate) - 1000) * 100) \div 437

\* One row of createFilterBank: fftSamples/2 + 1 weights in thousandths, all 0
\* but [j] = 1 - r and [j + 1] = r.
filterRow(scale, i, fftSamples, sampleRate) ==
  LET binHz == sampleRate \div fftSamples
      hz == filterHz(scale, i, sampleRate)
      j == hz \div binHz
      r == ((hz - j * binHz) * 1000) \div binHz
  IN [col \in 0..(fftSamples \div 2) |->
        IF col = j + 1 THEN r ELSE IF col = j THEN 1000 - r ELSE 0]

createFilterBank(numFilters, fftSamples, sampleRate, scale) ==
  [i \in 1..numFilters |-> filterRow(scale, i - 1, fftSamples, sampleRate)]

RECURSIVE DotProduct(_, _, _)
DotProduct(fftPoints, row, j) ==
  IF j >= Len(fftPoints) THEN 0
  ELSE fftPoints[j + 1] * row[j] + DotProduct(fftPoints, row, j + 1)

\* applyFilterBank: per filter, the sum over j < fftPoints.length of
\* fftPoints[j] * filterBank[i][j].
applyFilterBank(fftPoints, filterBank) ==
  [i \in 1..Len(filterBank) |-> DotProduct(fftPoints, filterBank[i], 0) \div 1000]

\* The worker's switch (scale): the scales that get a filter bank.
BankScales == {"mel", "logarithmic", "bark", "erb"}

\* createFilterBankForScale of the plugin's fft module: the bank, or null
\* (None) in the branch "case 'linear': default:".
createFilterBankForScale(scale, bankFilters, fftSamples, sampleRate) ==
  IF scale \in BankScales
  THEN Some(createFilterBank(bankFilters, fftSamples, sampleRate, scale))
  ELSE None

----------------------------------------------------------------------------
(* Frame scheduler of the workers *)

MinHopFloor == 64

\* "Calculate hop size" of calculateFrequencies; noverlap is None when the
\* option is not set. fftSamples is even, and a multiple of 4 from 256 on, so
\* that fftSamples * 0.5 and max(64, fftSamples * 0.25) are integers.
actualNoverlap(noverlap, fftSamples) ==
  LET requested == IF IsSome(noverlap) /\ noverlap[1] # 0
                   THEN noverlap[1]
                   ELSE Max(0, Round(fftSamples, 2))
      maxOverlap == fftSamples \div 2
  IN Min(requested, maxOverlap)

hopSize(noverlap, fftSamples) ==
  LET minHopSize == Max(MinHopFloor, fftSamples \div 4)
  IN Max(minHopSize, fftSamples - actualNoverlap(noverlap, fftSamples))

\* TypedArray.prototype.slice(start, end): negative indices count from the
\* end, both are clamped to the length.
Slice(arr, start, end) ==
  LET len == Len(arr)
      from == IF start < 0 THEN Max(len + start, 0) ELSE Min(start, len)
      to == IF end < 0 THEN Max(len + end, 0) ELSE Min(end, len)
  IN SubSeq(arr, from + 1, to)

----------------------------------------------------------------------------
(* Worker: calculateFrequencies and the message handler *)

\* The worker scripts: "windowed" is spectrogram-windowed.worker.js (no filter
\* bank), "spectrogram" is spectrogram/fft.worker.ts and spectrogram-worker.ts
\* (the same code, with filter banks).
Workers == {"windowed", "spectrogram"}

numFiltersPlusOne(fftSamples) == fftSamples \div 2 + 1

\* const numFilters = fftSamples / 2
numFilters(fftSamples) == fftSamples \div 2

frameFitsInclusive(offset, fftSamples, endSample) == offset + fftSamples <= endSample

\* The condition of the frame loop: the frame at `offset` ends before endSample.
frameFits(offset, fftSamples, endSample) == offset + fftSamples < endSample

\* The body of the frame loop after fft.calculateSpectrum(segment) returned
\* or threw r: filter bank, colour indices, channelFreq.push(freqBins).
\* acc is [engine, channelFreq, thrown].
FrameBody(acc, r, cfg) ==
  IF IsSome(r.thrown)
  THEN [engine |-> r.engine, channelFreq |-> acc.channelFreq, thrown |-> r.thrown]
  ELSE [engine |-> r.engine,
        channelFreq |->
          Append(acc.channelFreq,
                 convertSpectrumToColors(
                   IF cfg.filtered
                   THEN applyFilterBank(r.spectrum,
                          createFilterBank(numFilters(cfg.fftSamples), cfg.fftSamples,
                                           cfg.sampleRate, cfg.scale))
                   ELSE r.spectrum,
                   cfg.gainDB, cfg.rangeDB)),
        thrown |-> None]

\* The inner loop of calculateFrequencies over one channel:
\*   for (sample = startSample; sample + fftSamples < endSample; sample += hopSize)
\* A throw ends the loop.
RECURSIVE FrameLoop(_, _, _, _)
FrameLoop(acc, sample, channelData, cfg) ==
  IF IsSome(acc.thrown) \/ ~frameFits(sample, cfg.fftSamples, cfg.endSample) THEN acc
  ELSE FrameLoop(FrameBody(acc,
                           calculateSpectrum(acc.engine,
                                             Slice(channelData, sample, sample + cfg.fftSamples)),
                           cfg),
                 sample + cfg.hopSize, channelData, cfg)

\* frequencies.push(channelFreq) after the frame loop of one channel ended as ch.
ChannelBody(acc, ch) ==
  [engine |-> ch.engine,
   frequencies |-> Append(acc.frequencies, ch.channelFreq),
   thrown |-> ch.thrown]

\* The outer loop over the channels; acc is [engine, frequencies, thrown].
RECURSIVE ChannelLoop(_, _, _, _, _)
ChannelLoop(acc, c, channels, audioChannels, cfg) ==
  IF IsSome(acc.thrown) \/ c >= channels THEN acc
  ELSE ChannelLoop(
         ChannelBody(acc,
                     FrameLoop([engine |-> acc.engine, channelFreq |-> <<>>, thrown |-> None],
                               cfg.startSample, audioChannels[c + 1], cfg)),
         c + 1, channels, audioChannels, cfg)

\* "Initialize FFT (reuse if possible for performance)": the engine after the
\* if, or the Error the constructor throws for a window outside its switch.
initFFT(cached, options) ==
  IF cached = NoFFT \/ cached.bufferSize # options.fftSamples
  THEN IF options.windowFunc \in SupportedWindows
       THEN [thrown |-> None,
             engine |-> NewFFT(options.fftSamples, options.sampleRate, options.windowFunc)]
       ELSE [thrown |-> Some(ThrownError("No such window function")), engine |-> cached]
  ELSE [thrown |-> None, engine |-> cached]

\* What calculateFrequencies derives from its options before the loops; times
\* are in milliseconds.
frameConfig(w, options) ==
  [fftSamples |-> options.fftSamples, sampleRate |-> options.sampleRate,
   startSample |-> (options.startTime * options.sampleRate) \div 1000,
   endSample |-> (options.endTime * options.sampleRate) \div 1000,
   hopSize |-> hopSize(options.noverlap, options.fftSamples),
   filtered |-> (w = "spectrogram" /\ options.scale \in BankScales),
   scale |-> options.scale,
   gainDB |-> options.gainDB, rangeDB |-> options.rangeDB]

\* The outcome of calculateFrequencies once the loops ended as run, on the
\* engine `built` that the initialisation left in the module-level variable.
Outcome(built, run) ==
  [thrown |-> run.thrown, frequencies |-> run.frequencies, engine |-> run.engine,
   built |-> Some(built)]

\* calculateFrequencies after the FFT initialisation ended as init.
AfterInit(init, audioChannels, options, cfg) ==
  IF IsSome(init.thrown)
  THEN [thrown |-> init.thrown, frequencies |-> <<>>, engine |-> init.engine,
        built |-> None]
  ELSE Outcome(init.engine,
               ChannelLoop([engine |-> init.engine, frequencies |-> <<>>, thrown |-> None],
                           0, IF options.splitChannels THEN Len(audioChannels) ELSE 1,
                           audioChannels, cfg))

\* calculateFrequencies(audioChannels, options) of worker script w, started
\* with the module-level engine `cached`: the matrix or the thrown value, and
\* the module-level engine afterwards.
calculateFrequencies(w, cached, audioChannels, options) ==
  AfterInit(initFFT(cached, options), audioChannels, options, frameConfig(w, options))

\* The error property of the catch branch's response:
\*   windowed:     error: error.message    (undefined when a string was thrown)
\*   spectrogram:  error: error instanceof Error ? error.message : String(error)
errorDescription(w, thrown) ==
  IF w = "windowed"
  THEN IF thrown.kind = "Error" THEN Some(thrown.message) ELSE None
  ELSE Some(thrown.message)

\* The message the try or the catch branch posts for outcome r.
response(w, id, r) ==
  IF IsSome(r.thrown)
  THEN [type |-> "frequenciesResult", id |-> id, result |-> None,
        error |-> errorDescription(w, r.thrown[1])]
  ELSE [type |-> "frequenciesResult", id |-> id, result |-> Some(r.frequencies),
        error |-> None]

\* The handler's effect for outcome r of calculateFrequencies.
Handled(w, id, r) ==
  [engine |-> r.engine, built |-> r.built, post |-> <<response(w, id, r)>>]

\* self.onmessage of worker script w on message e.data = msg: the messages it
\* posts, and the module-level engine afterwards.
onmessage(w, cached, msg) ==
  IF msg.type = "calculateFrequencies"
  THEN Handled(w, msg.id, calculateFrequencies(w, cached, msg.audioData, msg.options))
  ELSE [engine |-> cached, built |-> None, post |-> <<>>]

----------------------------------------------------------------------------
(* Inputs of the worker model *)

\* Channel data: n samples of a repeating pattern.
Pattern == <<10, 5, -3, 2, 40>>
Signal(n) == [i \in 1..n |-> Pattern[((i - 1) % Len(Pattern)) + 1]]

\* The audio of a request: one channel of 70 samples, or that channel and a
\* second one of 3 samples, too short for a frame.
AudioData == {<<Signal(70)>>, <<Signal(70), Signal(3)>>}

\* Power-of-two sizes 2 and 4, and 6, which is none.
FftSizes == {2, 4, 6}
\* Two supported window functions and a name outside the constructor's switch.
WindowFuncs == {"rectangular", "hann", "lanczos"}
Scales == {"linear", "mel"}

\* Requests over [0, endTime) ms at 1000 Hz.
RequestOptions(endTimes, scales) ==
  [startTime : {0}, endTime : endTimes, sampleRate : {1000},
   fftSamples : FftSizes, windowFunc : WindowFuncs, noverlap : {None},
   scale : scales, gainDB : {20}, rangeDB : {80}, splitChannels : {TRUE}]

\* The empty range, without a frame, and the range of the whole channel, with two.
Options == RequestOptions({0, 70}, Scales)

\* The values of the variables that a part of the program not running holds.
WorkerIdle ==
  /\ worker = "none"
  /\ fft = NoFFT
  /\ inbox = <<>>
  /\ outbox = <<>>
  /\ served = <<>>
  /\ posted = 0

NoPlan ==
  [path |-> "none", fftSamples |-> 0, noverlap |-> None, startSample |-> 0,
   endSample |-> 0, width |-> 0, overlap |-> 0, hopSize |-> 0]

FrameIdle ==
  /\ pc = "idle"
  /\ plan = NoPlan
  /\ currentOffset = 0
  /\ columns = <<>>

QuantIdle == quantized = None

EngineIdle ==
  /\ engine = None
  /\ calls = <<>>

MatrixIdle ==
  /\ analysis = None
  /\ resampled = None

PluginIdle ==
  /\ plugin = None
  /\ returned = <<>>

BankIdle ==
  /\ builtBank = None
  /\ logSpectrum = None

\* private cachedResampledData = null; private cachedWidth = 0
NoCache == [cachedResampledData |-> None, cachedWidth |-> 0]

DrawIdle ==
  /\ cache = NoCache
  /\ drawn = <<>>

TripIdle ==
  /\ tripFrom = None
  /\ tripDown = None
  /\ tripUp = None

ScaleIdle == conv = None

SegIdle ==
  /\ segments = {}
  /\ visible = None

RafIdle ==
  /\ ticker = None
  /\ stopped = FALSE
  /\ lateTick = FALSE

RenderIdle ==
  /\ view = None
  /\ timers = <<>>
  /\ shown = None
  /\ owed = FALSE
  /\ sinceClear = FALSE

----------------------------------------------------------------------------
(* The worker as a state machine *)

Init ==
  /\ worker \in Workers
  /\ fft = NoFFT
  /\ inbox = <<>>
  /\ outbox = <<>>
  /\ served = <<>>
  /\ posted = 0
  /\ FrameIdle
  /\ QuantIdle
  /\ MatrixIdle
  /\ EngineIdle
  /\ PluginIdle
  /\ BankIdle
  /\ DrawIdle
  /\ TripIdle
  /\ RenderIdle
  /\ ScaleIdle
  /\ RafIdle
  /\ SegIdle

\* The main thread posts a calculateFrequencies request.
PostRequest ==
  /\ posted < MaxRequests
  /\ \E audioData \in AudioData, options \in Options :
       inbox' = Append(inbox, [type |-> "calculateFrequencies", id |-> posted + 1,
                               audioData |-> audioData, options |-> options])
  /\ posted' = posted + 1
  /\ UNCHANGED <<worker, fft, outbox, served, exceptWorker>>

\* The main thread posts a message of another type.
PostOther ==
  /\ posted < MaxRequests
  /\ inbox' = Append(inbox, [type |-> "ping", id |-> posted + 1,
                             audioData |-> <<>>, options |-> <<>>])
  /\ posted' = posted + 1
  /\ UNCHANGED <<worker, fft, outbox, served, exceptWorker>>

\* The effect on the worker's state of onmessage ending as r.
Deliver(msg, r) ==
  /\ fft' = r.engine
  /\ outbox' = outbox \o r.post
  /\ served' = Append(served, [msg |-> msg, before |-> fft, built |-> r.built,
                               post |-> r.post])
  /\ inbox' = Tail(inbox)

\* The worker's event loop delivers the oldest message to self.onmessage.
HandleMessage ==
  /\ inbox # <<>>
  /\ Deliver(Head(inbox), onmessage(worker, fft, Head(inbox)))
  /\ UNCHANGED <<worker, posted, exceptWorker>>

Next == PostRequest \/ PostOther \/ HandleMessage

Spec == Init /\ [][Next]_vars

----------------------------------------------------------------------------
(* Claims on the worker *)

CalcServed == {i \in 1..Len(served) : served[i].msg.type = "calculateFrequencies"}

\* C1: for every calculateFrequencies message the worker handled it posted
\* exactly one response, which carries the request's id and exactly one of a
\* result matrix and a defined error description, whatever was thrown.
C1_OneResultOrError ==
  \A i \in CalcServed :
    /\ Len(served[i].post) = 1
    /\ served[i].post[1].id = served[i].msg.id
    /\ IsSome(served[i].post[1].result) # IsSome(served[i].post[1].error)

\* C2: the response to a request is a function of the request alone: it is
\* the response a worker that has handled nothing before gives to it.
C2_ResponseOfRequestAlone ==
  \A i \in CalcServed :
    served[i].post = onmessage(worker, NoFFT, served[i].msg).post

\* C3: the engine left to serve a request's frames was built with that
\* request's fftSize and windowFunction.
C3_EngineMatchesRequest ==
  \A i \in CalcServed :
    IsSome(served[i].built) =>
      /\ served[i].built[1].bufferSize = served[i].msg.options.fftSamples
      /\ served[i].built[1].windowFunc = served[i].msg.options.windowFunc

----------------------------------------------------------------------------
(* The frame loop as a state machine: one step per iteration, in the        *)
(* workers' calculateFrequencies and in the plugin's getFrequencies         *)

\* The plugin's constructor: this.noverlap = options.noverlap || null
pluginNoverlap(option) ==
  IF IsSome(option) /\ option[1] # 0 THEN option ELSE None

\* getFrequencies: let noverlap = this.noverlap; if (!noverlap) { ... }
\* uniqueSamplesPerPx = buffer.length / totalWidth is a fraction, and infinite
\* for a width of 0, where Math.max(0, -Infinity) is 0.
inlineNoverlap(thisNoverlap, fftSamples, bufferLength, totalWidth) ==
  IF IsSome(thisNoverlap) THEN thisNoverlap[1]
  ELSE IF totalWidth = 0 THEN 0
  ELSE Max(0, Round(fftSamples * totalWidth - bufferLength, totalWidth))

\* Power-of-two FFT sizes below, at and above the hop floor of 64.
FrameFftSizes == {2, 64, 256, 512}
\* The noverlap option: unset, zero, negative, inside and beyond the FFT size.
FrameOverlaps == {None, Some(0), Some(-64), Some(128), Some(600)}
\* Sample ranges of the workers.
FrameStarts == {0, 100}
FrameEnds == {64, 300, 512, 640, 768, 900}
\* Channel lengths and display widths of the plugin.
BufferLengths == {100, 600}
TotalWidths == {0, 20, 2000}

FrameInit ==
  /\ WorkerIdle
  /\ FrameIdle
  /\ QuantIdle
  /\ MatrixIdle
  /\ EngineIdle
  /\ PluginIdle
  /\ BankIdle
  /\ DrawIdle
  /\ TripIdle
  /\ RenderIdle
  /\ ScaleIdle
  /\ RafIdle
  /\ SegIdle

\* A worker's calculateFrequencies reaches the frame loop of a channel.
StartWorker ==
  /\ pc = "idle"
  /\ \E fftSamples \in FrameFftSizes, noverlap \in FrameOverlaps,
        startSample \in FrameStarts, endSample \in FrameEnds :
       /\ plan' = [path |-> "worker", fftSamples |-> fftSamples, noverlap |-> noverlap,
                   startSample |-> startSample, endSample |-> endSample, width |-> 0,
                   overlap |-> actualNoverlap(noverlap, fftSamples),
                   hopSize |-> hopSize(noverlap, fftSamples)]
       /\ currentOffset' = startSample
  /\ columns' = <<>>
  /\ pc' = "frames"
  /\ UNCHANGED exceptFrame

\* The overlap and the stride of getFrequencies: currentOffset += fftSamples - noverlap
inlinePlan(fftSamples, option, bufferLength, totalWidth, noverlap) ==
  [path |-> "inline", fftSamples |-> fftSamples, noverlap |-> option,
   startSample |-> 0, endSample |-> bufferLength, width |-> totalWidth,
   overlap |-> noverlap, hopSize |-> fftSamples - noverlap]

\* The plugin's getFrequencies reaches the frame loop of a channel.
StartInline ==
  /\ pc = "idle"
  /\ \E fftSamples \in FrameFftSizes, option \in FrameOverlaps,
        bufferLength \in BufferLengths, totalWidth \in TotalWidths :
       plan' = inlinePlan(fftSamples, option, bufferLength, totalWidth,
                          inlineNoverlap(pluginNoverlap(option), fftSamples,
                                         bufferLength, totalWidth))
  /\ currentOffset' = 0
  /\ columns' = <<>>
  /\ pc' = "frames"
  /\ UNCHANGED exceptFrame

\* One iteration: the frame at currentOffset is transformed and pushed, and
\* the offset moves on by the stride.
Frame ==
  /\ pc = "frames"
  /\ frameFits(currentOffset, plan.fftSamples, plan.endSample)
  /\ Len(columns) < MaxFrames
  /\ columns' = Append(columns, currentOffset)
  /\ currentOffset' = currentOffset + plan.hopSize
  /\ UNCHANGED <<pc, plan, exceptFrame>>

\* The loop condition fails: channelFreq is pushed to frequencies.
EndFrames ==
  /\ pc = "frames"
  /\ ~frameFits(currentOffset, plan.fftSamples, plan.endSample)
  /\ pc' = "done"
  /\ UNCHANGED <<plan, currentOffset, columns, exceptFrame>>

FrameNext == StartWorker \/ StartInline \/ Frame \/ EndFrames

FrameSpec == FrameInit /\ [][FrameNext]_vars

----------------------------------------------------------------------------
(* Claims on the frame loop *)

\* C4: the stride used to enumerate frames satisfies
\* max(64, fftSize/4) <= hopSize <= fftSize, for every power-of-two fftSize
\* and every requested overlap, in the worker and in the inline path.
C4_HopWithinBounds ==
  pc # "idle" =>
    /\ Max(64, plan.fftSamples \div 4) <= plan.hopSize
    /\ plan.hopSize <= plan.fftSamples

\* C5: each iteration of the frame loop advances the frame offset by a
\* strictly positive amount, in the worker and in the inline path.
C5_StrictAdvance ==
  [][(pc = "frames" /\ pc' = "frames") => currentOffset' > currentOffset]_vars

\* C6: the overlap the workers' scheduler uses is the requested noverlap
\* whenever one is given, an explicit 0 included, and round(fftSize*0.5) only
\* when it is unset, clamped into [0, fftSize*0.5]; fftSize 512 with no
\* overlap gives hopSize 256 and an explicit 0 gives hopSize = fftSize.
C6_OverlapAsRequested ==
  (pc # "idle" /\ plan.path = "worker") =>
    /\ plan.overlap =
         Max(0, Min(IF IsSome(plan.noverlap) THEN plan.noverlap[1]
                    ELSE Round(plan.fftSamples, 2),
                    plan.fftSamples \div 2))
    /\ (plan.fftSamples = 512 /\ plan.noverlap = None) => plan.hopSize = 256
    /\ (plan.fftSamples >= MinHopFloor /\ plan.noverlap = Some(0)) =>
         plan.hopSize = plan.fftSamples

\* The samples between the start of the range and the last possible frame start.
FrameRoom == plan.endSample - plan.startSample - plan.fftSamples

\* C7 as stated: every emitted frame satisfies s + fftSize < endSample, and a
\* channel has floor((endSample-startSample-fftSize)/hopSize)+1 columns when
\* the range produces a frame, and none otherwise.
C7_FloorPlusOne ==
  (plan.path = "worker") =>
    /\ \A j \in 1..Len(columns) : columns[j] + plan.fftSamples < plan.endSample
    /\ pc = "done" =>
         Len(columns) = IF FrameRoom > 0 THEN FrameRoom \div plan.hopSize + 1 ELSE 0

\* C7, amended: every emitted frame satisfies s + fftSize < endSample, and a
\* channel has ceil((endSample-startSample-fftSize)/hopSize) columns when
\* endSample-startSample-fftSize is positive, and none otherwise.
C7_CeilingCount ==
  (plan.path = "worker") =>
    /\ \A j \in 1..Len(columns) : columns[j] + plan.fftSamples < plan.endSample
    /\ pc = "done" =>
         Len(columns) = IF FrameRoom > 0
                        THEN (FrameRoom + plan.hopSize - 1) \div plan.hopSize
                        ELSE 0

\* A worker's loop ended after two frames or more on a range whose room is a
\* whole number of strides.
C7_Witness ==
  /\ plan.path = "worker"
  /\ pc = "done"
  /\ Len(columns) >= 2
  /\ FrameRoom % plan.hopSize = 0

----------------------------------------------------------------------------
(* The quantizer as a state machine *)

\* Magnitudes in thousandths: silence, the powers of ten from 0.001 to 10,
\* whose levels are the whole -60, -40, -20, 0 and 20 dB, and values between.
Magnitudes == {0, 1, 10, 50, 90, 100, 101, 1000, 2000, 10000}
Gains == {0, 20, 40}
Ranges == {40, 80}

QuantInit ==
  /\ WorkerIdle
  /\ FrameIdle
  /\ QuantIdle
  /\ MatrixIdle
  /\ EngineIdle
  /\ PluginIdle
  /\ BankIdle
  /\ DrawIdle
  /\ TripIdle
  /\ RenderIdle
  /\ ScaleIdle
  /\ RafIdle
  /\ SegIdle

\* The conversion loop runs over a spectrum of two bins.
Quantize ==
  /\ \E m1 \in Magnitudes, m2 \in Magnitudes, gainDB \in Gains, rangeDB \in Ranges :
       quantized' = Some([spectrum |-> <<m1, m2>>, gainDB |-> gainDB, rangeDB |-> rangeDB,
                          colors |-> convertSpectrumToColors(<<m1, m2>>, gainDB, rangeDB)])
  /\ UNCHANGED exceptQuant

QuantNext == Quantize

QuantSpec == QuantInit /\ [][QuantNext]_vars

----------------------------------------------------------------------------
(* Claims on the quantizer *)

\* The number the three branches of the conversion produce, before it is stored.
ClaimedByte(m, gainDB, rangeDB) ==
  IF valueDB(m) < -(gainDB + rangeDB) THEN 0
  ELSE IF valueDBUp(m) > -gainDB THEN 255
  ELSE Round((valueDB(m) + gainDB) * 255, rangeDB)

\* C8: the intensity byte stored for a magnitude is 0 below the noise floor,
\* 255 above the gain ceiling and round(((valueDB+gainDB)/rangeDB)*255)
\* between them, and the stored unsigned 8-bit value is that number itself.
C8_ByteIsTheNumber ==
  IsSome(quantized) =>
    \A j \in 1..Len(quantized[1].colors) :
      quantized[1].colors[j] =
        ClaimedByte(quantized[1].spectrum[j], quantized[1].gainDB, quantized[1].rangeDB)

\* C9: for fixed gainDB and rangeDB the stored byte is monotonically
\* non-decreasing in magnitude: a louder bin never receives a smaller byte
\* than a quieter one.
C9_MonotoneInMagnitude ==
  IsSome(quantized) =>
    \A i, j \in 1..Len(quantized[1].colors) :
      quantized[1].spectrum[i] <= quantized[1].spectrum[j] =>
        quantized[1].colors[i] <= quantized[1].colors[j]

----------------------------------------------------------------------------
(* Resampler of the plugin: a channel matrix is a sequence of columns.      *)
(* ratio = oldColumns / targetWidth is an IEEE double, and so is m * ratio: *)
(* where the product of the reals is a whole number n, the double can be    *)
(* the one just below n (whose floor is n - 1) or just above n (whose ceil  *)
(* is n + 1). The two tables list the triples <<oldColumns, targetWidth,    *)
(* m>> with m <= targetWidth where that happens, for all pairs of widths up *)
(* to 40 and for all pairs up to 122 of which one is 122; every other floor *)
(* and ceil of such a pair is that of the reals. No product of the          *)
(* upsampling branch (m < targetWidth) is in the tables.                    *)

ProductJustBelow ==
  {<<13, 23, 23>>, <<15, 11, 11>>, <<15, 13, 13>>, <<15, 22, 22>>,
   <<15, 26, 26>>, <<26, 23, 23>>, <<29, 25, 25>>, <<30, 11, 11>>,
   <<30, 13, 13>>, <<30, 22, 11>>, <<30, 22, 22>>, <<30, 26, 13>>,
   <<30, 26, 26>>, <<31, 29, 29>>, <<31, 39, 39>>, <<39, 37, 37>>,
   <<122, 7, 7>>, <<122, 14, 7>>, <<122, 14, 14>>, <<122, 23, 23>>,
   <<122, 27, 27>>, <<122, 28, 14>>, <<122, 28, 28>>, <<122, 46, 23>>,
   <<122, 46, 46>>, <<122, 54, 27>>, <<122, 54, 54>>, <<122, 56, 28>>,
   <<122, 56, 56>>, <<122, 59, 59>>, <<122, 91, 91>>, <<122, 92, 46>>,
   <<122, 92, 92>>, <<122, 103, 103>>, <<122, 107, 107>>, <<122, 108, 54>>,
   <<122, 108, 108>>, <<122, 112, 56>>, <<122, 112, 112>>, <<122, 113, 113>>,
   <<122, 118, 59>>, <<122, 118, 118>>, <<122, 119, 119>>}

ProductJustAbove ==
  {<<7, 25, 25>>, <<14, 25, 25>>, <<15, 29, 29>>, <<21, 19, 19>>,
   <<21, 38, 38>>, <<23, 21, 21>>, <<25, 11, 11>>, <<25, 22, 22>>,
   <<25, 39, 39>>, <<27, 13, 13>>, <<27, 21, 21>>, <<27, 23, 23>>,
   <<27, 26, 26>>, <<28, 25, 25>>, <<29, 7, 7>>, <<29, 14, 14>>,
   <<29, 27, 27>>, <<29, 28, 28>>, <<29, 35, 35>>, <<30, 29, 29>>,
   <<31, 15, 15>>, <<31, 30, 30>>, <<36, 28, 21>>, <<122, 11, 11>>,
   <<122, 19, 19>>, <<122, 22, 11>>, <<122, 22, 22>>, <<122, 38, 19>>,
   <<122, 38, 38>>, <<122, 44, 22>>, <<122, 44, 44>>, <<122, 76, 38>>,
   <<122, 76, 76>>, <<122, 88, 44>>, <<122, 88, 88>>, <<122, 105, 105>>,
   <<122, 111, 111>>, <<122, 115, 115>>, <<122, 117, 117>>}

\* Math.floor(m * ratio)
floorOfProduct(m, oldColumns, targetWidth) ==
  (m * oldColumns) \div targetWidth
    - (IF <<oldColumns, targetWidth, m>> \in ProductJustBelow THEN 1 ELSE 0)

\* Math.ceil(m * ratio)
ceilOfProduct(m, oldColumns, targetWidth) ==
  (m * oldColumns + targetWidth - 1) \div targetWidth
    + (IF <<oldColumns, targetWidth, m>> \in ProductJustAbove THEN 1 ELSE 0)

\* sum += oldMatrix[j][k] for j from `from` below `to` (0-based columns, bin k).
RECURSIVE SumBins(_, _, _, _)
SumBins(oldMatrix, k, from, to) ==
  IF from >= to THEN 0
  ELSE IF to = from + 1 THEN oldMatrix[from + 1][k]
  ELSE SumBins(oldMatrix, k, from, (from + to) \div 2)
         + SumBins(oldMatrix, k, (from + to) \div 2, to)

\* new Uint8Array(freqBins) followed by column.set(source): the columns of a
\* matrix have one length, so the copy fills the new column.
CopyColumn(freqBins, source) == [k \in 1..freqBins |-> source[k]]

\* new Uint8Array(freqBins) filled with the rounded mean of columns from..to-1.
MeanColumn(oldMatrix, freqBins, from, to) ==
  [k \in 1..freqBins |-> ToUint8(Round(SumBins(oldMatrix, k, from, to), to - from))]

\* Column i of the "Downsampling with proper averaging" branch.
downsampleColumn(oldMatrix, targetWidth, freqBins, i) ==
  LET oldColumns == Len(oldMatrix)
      start == floorOfProduct(i, oldColumns, targetWidth)
      end == Min(ceilOfProduct(i + 1, oldColumns, targetWidth), oldColumns)
  IN IF end - start = 1
     THEN CopyColumn(freqBins, oldMatrix[start + 1])
     ELSE MeanColumn(oldMatrix, freqBins, start, end)

upsampleColumnFromRight(oldMatrix, targetWidth, freqBins, i, isPerformanceMode) ==
  CopyColumn(freqBins,
             oldMatrix[Min((i * Len(oldMatrix)) \div targetWidth + 1, Len(oldMatrix) - 1) + 1])

\* Column i of the "Upsampling with linear interpolation" branch; the weight
\* is (i * oldColumns mod targetWidth) / targetWidth.
upsampleColumn(oldMatrix, targetWidth, freqBins, i, isPerformanceMode) ==
  LET oldColumns == Len(oldMatrix)
      leftIndex == (i * oldColumns) \div targetWidth
      rightIndex == Min(leftIndex + 1, oldColumns - 1)
      weight == (i * oldColumns) % targetWidth
  IN IF weight = 0 \/ leftIndex = rightIndex \/ isPerformanceMode
     THEN CopyColumn(freqBins, oldMatrix[leftIndex + 1])
     ELSE [k \in 1..freqBins |->
             ToUint8(Round(oldMatrix[leftIndex + 1][k] * (targetWidth - weight)
                           + oldMatrix[rightIndex + 1][k] * weight, targetWidth))]

\* Column i of fastDownsample.
fastDownsampleColumn(oldMatrix, targetWidth, freqBins, i) ==
  LET start == floorOfProduct(i, Len(oldMatrix), targetWidth)
      end == Min(floorOfProduct(i + 1, Len(oldMatrix), targetWidth), Len(oldMatrix))
      sampleCount == Min(4, end - start)
  IN IF sampleCount = 1
     THEN CopyColumn(freqBins, oldMatrix[start + 1])
     ELSE MeanColumn(oldMatrix, freqBins, start, start + sampleCount)

fastDownsample(oldMatrix, targetWidth, freqBins) ==
  [i \in 1..targetWidth |-> fastDownsampleColumn(oldMatrix, targetWidth, freqBins, i - 1)]

\* resampleChannel(oldMatrix, targetWidth) with options.performanceMode: the
\* new matrix, or the TypeError of column.set(undefined) on a matrix without
\* columns.
resampleChannel(oldMatrix, targetWidth, performanceMode) ==
  LET oldColumns == Len(oldMatrix)
      freqBins == IF oldColumns > 0 THEN Len(oldMatrix[1]) ELSE 0
  IN IF oldColumns = targetWidth \/ targetWidth = 0
     THEN [thrown |-> None, matrix |-> oldMatrix]
     ELSE IF performanceMode = "fast" /\ oldColumns > 8 * targetWidth
     THEN [thrown |-> None, matrix |-> fastDownsample(oldMatrix, targetWidth, freqBins)]
     ELSE IF oldColumns >= targetWidth
     THEN [thrown |-> None,
           matrix |-> [i \in 1..targetWidth |->
                         downsampleColumn(oldMatrix, targetWidth, freqBins, i - 1)]]
     ELSE IF oldColumns = 0
     THEN [thrown |-> Some(ThrownError("TypeError")), matrix |-> <<>>]
     ELSE [thrown |-> None,
           matrix |-> [i \in 1..targetWidth |->
                         upsampleColumn(oldMatrix, targetWidth, freqBins, i - 1,
                                        performanceMode = "fast")]]

\* The result of frequenciesData.map(...) over the channel results rs.
mapChannels(rs) ==
  IF \E c \in 1..Len(rs) : IsSome(rs[c].thrown)
  THEN [thrown |-> rs[CHOOSE c \in 1..Len(rs) :
                        /\ IsSome(rs[c].thrown)
                        /\ \A d \in 1..(c - 1) : ~IsSome(rs[d].thrown)].thrown,
        data |-> <<>>]
  ELSE [thrown |-> None, data |-> [c \in 1..Len(rs) |-> rs[c].matrix]]

\* efficientResample(frequenciesData, targetWidth)
efficientResample(frequenciesData, targetWidth, performanceMode) ==
  mapChannels([c \in 1..Len(frequenciesData) |->
                 resampleChannel(frequenciesData[c], targetWidth, performanceMode)])

----------------------------------------------------------------------------
(* The matrix of a request and its resampling, as a state machine *)

\* A channel of 600 samples analysed whole: ten frames at the hop floor of 64.
LongAudio == <<Signal(600)>>
\* The scale names of the contract, and one outside them.
SupportedScales == {"linear", "logarithmic", "mel", "bark", "erb"}
LongScales == Scales \cup {"octave"}
LongOptions == RequestOptions({600}, LongScales)
\* Display widths: none, extreme and plain downsampling, the matrix's own
\* width, upsampling.
TargetWidths == {0, 1, 4, 10, 12}
PerformanceModes == {"quality", "fast"}

MatrixInit ==
  /\ worker \in Workers
  /\ fft = NoFFT
  /\ inbox = <<>>
  /\ outbox = <<>>
  /\ served = <<>>
  /\ posted = 0
  /\ FrameIdle
  /\ QuantIdle
  /\ MatrixIdle
  /\ EngineIdle
  /\ PluginIdle
  /\ BankIdle
  /\ DrawIdle
  /\ TripIdle
  /\ RenderIdle
  /\ ScaleIdle
  /\ RafIdle
  /\ SegIdle

\* The outcome r of calculateFrequencies(LongAudio, options) reaches the main thread.
Analysed(options, r) ==
  /\ analysis' = Some([options |-> options, thrown |-> r.thrown,
                       frequencies |-> r.frequencies])
  /\ resampled' = None

\* A request is analysed by a worker that served nothing before.
Analyse ==
  /\ \E options \in LongOptions :
       Analysed(options, calculateFrequencies(worker, NoFFT, LongAudio, options))
  /\ UNCHANGED exceptMatrix

\* The outcome r of efficientResample for a width and a performance mode.
Resampled(targetWidth, performanceMode, r) ==
  resampled' = Some([targetWidth |-> targetWidth, performanceMode |-> performanceMode,
                     thrown |-> r.thrown, data |-> r.data])

\* The matrix of the last analysis is resampled to a display width.
Resample ==
  /\ IsSome(analysis)
  /\ ~IsSome(analysis[1].thrown)
  /\ \E targetWidth \in TargetWidths, performanceMode \in PerformanceModes :
       Resampled(targetWidth, performanceMode,
                 efficientResample(analysis[1].frequencies, targetWidth, performanceMode))
  /\ UNCHANGED <<analysis, exceptMatrix>>

MatrixNext == Analyse \/ Resample

MatrixSpec == MatrixInit /\ [][MatrixNext]_vars

----------------------------------------------------------------------------
(* Claims on the matrix *)

\* Every column of every channel of matrix m has length n.
ColumnsHaveLength(m, n) ==
  \A c \in 1..Len(m) : \A t \in 1..Len(m[c]) : Len(m[c][t]) = n

\* C10: in every matrix the pipeline returns, every column of every channel
\* has length fftSize/2, with and without a filter bank, and resampling the
\* matrix to any target width preserves that column length.
C10_ColumnLength ==
  /\ (IsSome(analysis) /\ ~IsSome(analysis[1].thrown)) =>
       ColumnsHaveLength(analysis[1].frequencies, analysis[1].options.fftSamples \div 2)
  /\ (IsSome(resampled) /\ ~IsSome(resampled[1].thrown)) =>
       ColumnsHaveLength(resampled[1].data, analysis[1].options.fftSamples \div 2)

\* A matrix computed through a filter bank was resampled to another width.
C10_Witness ==
  /\ IsSome(analysis)
  /\ analysis[1].options.scale = "mel"
  /\ worker = "spectrogram"
  /\ IsSome(resampled)
  /\ Len(resampled[1].data) = 1
  /\ Len(resampled[1].data[1]) = resampled[1].targetWidth
  /\ Len(resampled[1].data[1]) # Len(analysis[1].frequencies[1])
  /\ Len(resampled[1].data[1][1]) = 2

----------------------------------------------------------------------------
(* One FFT engine instance as a state machine *)

\* Sizes of the constructor: the powers of two 2 and 4, and 6.
EngineSizes == {2, 4, 6}
\* Frames handed to calculateSpectrum: of 2, 4 and 3 samples, silence included.
Buffers ==
  {<<10, 5>>, <<0, 0>>, <<2, 40>>, <<10, 5, -3, 2>>, <<0, 0, 0, 0>>, <<40, 2, 5, 10>>,
   <<10, 5, -3>>}

EngineInit ==
  /\ WorkerIdle
  /\ FrameIdle
  /\ QuantIdle
  /\ MatrixIdle
  /\ EngineIdle
  /\ PluginIdle
  /\ BankIdle
  /\ DrawIdle
  /\ TripIdle
  /\ RenderIdle
  /\ ScaleIdle
  /\ RafIdle
  /\ SegIdle

\* new FFT(bufferSize, sampleRate, windowFunc): the object, or the Error of
\* the switch's default branch, which leaves the caller without a new object.
construct(bufferSize, sampleRate, windowFunc) ==
  IF windowFunc \in SupportedWindows
  THEN [thrown |-> None, engine |-> Some(NewFFT(bufferSize, sampleRate, windowFunc))]
  ELSE [thrown |-> Some(ThrownError("No such window function")), engine |-> None]

\* The effect of `fft = new FFT(...)` ending as r: a new instance replaces the
\* old one, a throw leaves the old one in place.
Constructed(r) ==
  IF IsSome(r.thrown)
  THEN UNCHANGED <<engine, calls>>
  ELSE /\ engine' = r.engine
       /\ calls' = <<>>

\* The caller constructs a new instance.
Construct ==
  /\ \E bufferSize \in EngineSizes, windowFunc \in WindowFuncs :
       Constructed(construct(bufferSize, 1000, windowFunc))
  /\ UNCHANGED exceptEngine

\* The effect of a calculateSpectrum(buffer) call that ended as r.
Called(buffer, r) ==
  /\ engine' = Some(r.engine)
  /\ calls' = Append(calls, [buffer |-> buffer, before |-> engine[1], thrown |-> r.thrown,
                             spectrum |-> r.spectrum, after |-> r.engine])

\* The caller hands a frame to the instance.
Calculate ==
  /\ IsSome(engine)
  /\ Len(calls) < MaxCalls
  /\ \E buffer \in Buffers : Called(buffer, calculateSpectrum(engine[1], buffer))
  /\ UNCHANGED exceptEngine

EngineNext == Construct \/ Calculate

EngineSpec == EngineInit /\ [][EngineNext]_vars

----------------------------------------------------------------------------
(* Claims on the engine *)

\* The calls of the history that returned a spectrum.
ReturnedCalls == {k \in 1..Len(calls) : ~IsSome(calls[k].thrown)}

\* The magnitudes returned so far.
ReturnedMagnitudes ==
  UNION {{calls[k].spectrum[i] : i \in 1..Len(calls[k].spectrum)} : k \in ReturnedCalls}

LargestReturned == CHOOSE m \in ReturnedMagnitudes : \A n \in ReturnedMagnitudes : n <= m

\* The first call that returned the largest magnitude, and the first bin of it.
FirstCallOfLargest ==
  CHOOSE k \in ReturnedCalls :
    /\ \E i \in 1..Len(calls[k].spectrum) : calls[k].spectrum[i] = LargestReturned
    /\ \A j \in ReturnedCalls :
         (\E i \in 1..Len(calls[j].spectrum) : calls[j].spectrum[i] = LargestReturned) => k <= j

FirstBinOfLargest ==
  CHOOSE i \in 0..(Len(calls[FirstCallOfLargest].spectrum) - 1) :
    /\ calls[FirstCallOfLargest].spectrum[i + 1] = LargestReturned
    /\ \A j \in 0..(i - 1) : calls[FirstCallOfLargest].spectrum[j + 1] # LargestReturned

----------------------------------------------------------------------------
(* Claims on the worker's configuration errors *)

\* C12: an FFT engine with an fftSize that is not a power of two is never
\* built or cached, and a request carrying such an fftSize always yields an
\* error response, also when its time range contains no frame.
C12_NoEngineForBadSize ==
  /\ fft = NoFFT \/ IsPowerOfTwo(fft.bufferSize)
  /\ \A i \in CalcServed :
       ~IsPowerOfTwo(served[i].msg.options.fftSamples) =>
         /\ served[i].built = None
         /\ IsSome(served[i].post[1].error)

\* C13: a request that names a window function outside the supported set
\* always fails with an error, whatever requests were handled before it; it
\* is never served with another window function's weights.
C13_UnknownWindowFails ==
  \A i \in CalcServed :
    served[i].msg.options.windowFunc \notin SupportedWindows =>
      /\ IsSome(served[i].post[1].error)
      /\ served[i].post[1].result = None

\* What the worker returns for channel c of a request alone, from the engine
\* it had cached when the request arrived.
ChannelAlone(i, c) ==
  calculateFrequencies(worker, served[i].before, <<served[i].msg.audioData[c]>>,
                       served[i].msg.options)

\* C15: when an error arises while one channel of a multi-channel request is
\* processed, only that channel is aborted: the columns of every channel that
\* can be computed are still delivered to the caller.
C15_OtherChannelsDelivered ==
  \A i \in CalcServed :
    \A c \in 1..Len(served[i].msg.audioData) :
      ~IsSome(ChannelAlone(i, c).thrown) =>
        /\ IsSome(served[i].post[1].result)
        /\ served[i].post[1].result[1][c] = ChannelAlone(i, c).frequencies[1]

----------------------------------------------------------------------------
(* Claims on the scale name *)

\* C14: a request or filter-bank build whose scale name is not one of
\* linear, logarithmic, mel, bark, erb fails with an error; it is never
\* processed as if a supported scale had been requested.
C14_UnknownScaleFails ==
  (IsSome(analysis) /\ analysis[1].options.scale \notin SupportedScales) =>
    IsSome(analysis[1].thrown)

----------------------------------------------------------------------------
(* Claims on failed calls of the engine *)

\* The engine after the calls 1..k of the history without those that threw,
\* made on a new instance of the same size and window.
RECURSIVE EngineWithoutFailed(_)
EngineWithoutFailed(k) ==
  IF k = 0
  THEN NewFFT(engine[1].bufferSize, engine[1].sampleRate, engine[1].windowFunc)
  ELSE IF IsSome(calls[k].thrown) THEN EngineWithoutFailed(k - 1)
  ELSE calculateSpectrum(EngineWithoutFailed(k - 1), calls[k].buffer).engine

\* C16: a calculateSpectrum call that fails because the frame length differs
\* from fftSize leaves the engine unchanged, and every later valid call
\* returns the spectrum, and leaves the engine, it would have if the failed
\* call had never happened.
C16_FailedCallLeavesEngine ==
  \A k \in 1..Len(calls) :
    IF IsSome(calls[k].thrown)
    THEN calls[k].after = calls[k].before
    ELSE /\ calls[k].spectrum =
              calculateSpectrum(EngineWithoutFailed(k - 1), calls[k].buffer).spectrum
         /\ calls[k].after =
              calculateSpectrum(EngineWithoutFailed(k - 1), calls[k].buffer).engine

\* On an engine of size 4 with a peak, a frame of another length was
\* rejected and a valid frame was transformed afterwards.
C16_Witness ==
  /\ Len(calls) = 3
  /\ engine[1].bufferSize = 4
  /\ ~IsSome(calls[1].thrown)
  /\ calls[1].after.peak > 0
  /\ IsSome(calls[2].thrown)
  /\ Len(calls[2].buffer) # 4
  /\ ~IsSome(calls[3].thrown)
  /\ calls[3].spectrum # calls[1].spectrum

----------------------------------------------------------------------------
(* The spectrogram plugin's getFrequencies on the main thread, with the     *)
(* accelerated (WebAssembly) backend and the JavaScript one.                *)
(* The accelerated module is compiled from outside these sources; its three *)
(* entry points are taken to compute what their JavaScript counterparts     *)
(* compute, so that every difference found below is one of getFrequencies.  *)

\* WasmFFT.calculate_spectrum(input) of an instance built with (size, window_type).
calculate_spectrum(wasmFFT, input) ==
  calculateSpectrum(NewFFT(wasmFFT.size, 0, wasmFFT.window_type), input).spectrum

\* WasmFilterBank.apply(spectrum) of an instance built with
\* (num_filters, fft_size, sample_rate, scale_type).
apply(wasmFilterBank, spectrum) ==
  applyFilterBank(spectrum,
                  createFilterBank(wasmFilterBank.num_filters, wasmFilterBank.fft_size,
                                   wasmFilterBank.sample_rate, wasmFilterBank.scale_type))

\* db_to_color_indices(spectrum, gain_db, range_db)
db_to_color_indices(spectrum, gain_db, range_db) ==
  convertSpectrumToColors(spectrum, gain_db, range_db)

\* The fields the plugin's constructor sets from its options, and the field
\* initialisers of the backends. wasmInit is the state of the promise that
\* initializeWasm waits for: "none" before onInit, then "pending", then "settled".
SpectrogramPlugin(options) ==
  [useWasm |-> options.useWasm,
   splitChannels |-> options.splitChannels,
   fftSamples |-> options.fftSamples,
   noverlap |-> pluginNoverlap(options.noverlap),
   windowFunc |-> options.windowFunc,
   gainDB |-> options.gainDB,
   rangeDB |-> options.rangeDB,
   scale |-> options.scale,
   fft |-> NoFFT,
   wasmFFT |-> None,
   wasmFilterBank |-> None,
   isWasmAvailable |-> FALSE,
   wasmInit |-> "none"]

\* initializeFFT(sampleRate); fftOk is whether the WasmFFT constructor returns.
initializeWasmFFT(p, fftOk) ==
  IF p.useWasm /\ p.isWasmAvailable /\ ~IsSome(p.wasmFFT)
  THEN IF fftOk
       THEN [p EXCEPT !.wasmFFT = Some([size |-> p.fftSamples, window_type |-> p.windowFunc])]
       ELSE [p EXCEPT !.isWasmAvailable = FALSE]
  ELSE p

initializeJsFFT(p, sampleRate) ==
  IF ~p.isWasmAvailable /\ p.fft = NoFFT
  THEN [p EXCEPT !.fft = NewFFT(p.fftSamples, sampleRate, p.windowFunc)]
  ELSE p

initializeFFT(p, sampleRate, fftOk) ==
  initializeJsFFT(initializeWasmFFT(p, fftOk), sampleRate)

\* "Prepare filter bank": the plugin afterwards, useWasmFilterBank and
\* filterBank; bankOk is whether the WasmFilterBank constructor returns.
prepareFilterBank(p, sampleRate, bankOk) ==
  LET tried == p.scale # "linear" /\ p.isWasmAvailable /\ IsSome(p.wasmFFT)
                 /\ ~IsSome(p.wasmFilterBank)
      useWasmFilterBank == tried /\ bankOk
  IN [plugin |->
        IF useWasmFilterBank
        THEN [p EXCEPT !.wasmFilterBank =
                Some([num_filters |-> p.fftSamples \div 2, fft_size |-> p.fftSamples,
                      sample_rate |-> sampleRate, scale_type |-> p.scale])]
        ELSE p,
      useWasmFilterBank |-> useWasmFilterBank,
      filterBank |->
        IF p.scale # "linear" /\ ~useWasmFilterBank
        THEN createFilterBankForScale(p.scale, p.fftSamples \div 2, p.fftSamples, sampleRate)
        ELSE None]

\* this.gainDB || 20, this.rangeDB || 80
orDefault(value, default) == IF value = 0 THEN default ELSE value

\* "Convert to uint8 color indices"; colorOk is whether db_to_color_indices returns.
colorIndices(p, spectrum, colorOk) ==
  IF p.isWasmAvailable /\ IsSome(p.wasmFFT) /\ colorOk
  THEN db_to_color_indices(spectrum, orDefault(p.gainDB, 20), orDefault(p.rangeDB, 80))
  ELSE convertSpectrumToColors(spectrum, p.gainDB, p.rangeDB)

\* The spectrum of one segment, and the JavaScript engine afterwards:
\* the if / else if of "Use WASM FFT if available, otherwise use JavaScript FFT".
segmentSpectrum(p, prep, engineNow, segment) ==
  IF p.isWasmAvailable /\ IsSome(p.wasmFFT)
  THEN [engine |-> engineNow,
        spectrum |->
          IF prep.useWasmFilterBank /\ IsSome(p.wasmFilterBank)
          THEN apply(p.wasmFilterBank[1], calculate_spectrum(p.wasmFFT[1], segment))
          ELSE calculate_spectrum(p.wasmFFT[1], segment)]
  ELSE LET r == calculateSpectrum(engineNow, segment)
       IN [engine |-> r.engine,
           spectrum |-> IF IsSome(prep.filterBank)
                        THEN applyFilterBank(r.spectrum, prep.filterBank[1])
                        ELSE r.spectrum]

\* Neither branch can run: console.error('No FFT available!'); return []
noFFTAvailable(p, engineNow) ==
  ~(p.isWasmAvailable /\ IsSome(p.wasmFFT)) /\ engineNow = NoFFT

\* The while loop over one channel:
\*   while (currentOffset + fftSamples < channelData.length) { ...
\*     channelFreq.push(array); currentOffset += fftSamples - noverlap }
\* acc is [engine, channelFreq, returnedEmpty].
RECURSIVE segmentLoop(_, _, _, _, _, _, _)
segmentLoop(acc, offset, channelData, p, prep, noverlap, colorOk) ==
  IF ~(offset + p.fftSamples < Len(channelData)) THEN acc
  ELSE IF noFFTAvailable(p, acc.engine) THEN [acc EXCEPT !.returnedEmpty = TRUE]
  ELSE LET r == segmentSpectrum(p, prep, acc.engine,
                                Slice(channelData, offset, offset + p.fftSamples))
       IN segmentLoop([engine |-> r.engine,
                       channelFreq |-> Append(acc.channelFreq,
                                              colorIndices(p, r.spectrum, colorOk)),
                       returnedEmpty |-> FALSE],
                      offset + p.fftSamples - noverlap, channelData, p, prep, noverlap,
                      colorOk)

\* const channels = splitChannels ? buffer.numberOfChannels : 1
channelCount(p, buffer) == IF p.splitChannels THEN Len(buffer.channelData) ELSE 1

\* The for loop over the channels; acc is [engine, frequencies, returnedEmpty].
RECURSIVE channelsLoop(_, _, _, _, _, _, _)
channelsLoop(acc, c, buffer, p, prep, noverlap, colorOk) ==
  IF acc.returnedEmpty \/ c >= channelCount(p, buffer) THEN acc
  ELSE LET ch == segmentLoop([engine |-> acc.engine, channelFreq |-> <<>>,
                              returnedEmpty |-> FALSE], 0,
                             buffer.channelData[c + 1], p, prep, noverlap, colorOk)
       IN channelsLoop([engine |-> ch.engine,
                        frequencies |-> Append(acc.frequencies, ch.channelFreq),
                        returnedEmpty |-> ch.returnedEmpty],
                       c + 1, buffer, p, prep, noverlap, colorOk)

\* What getFrequencies returns and leaves once the loops ended as run.
analysed(p, run) ==
  [plugin |-> [p EXCEPT !.fft = run.engine],
   frequencies |-> IF run.returnedEmpty THEN <<>> ELSE run.frequencies]

\* getFrequencies after the filter bank was prepared as prep.
analyseBuffer(prep, buffer, noverlap, colorOk) ==
  analysed(prep.plugin,
           channelsLoop([engine |-> prep.plugin.fft, frequencies |-> <<>>,
                         returnedEmpty |-> FALSE], 0, buffer,
                        prep.plugin, prep, noverlap, colorOk))

\* getFrequencies(buffer) on plugin p whose getWidth() is totalWidth, under the
\* outcomes of the accelerated backend: the plugin afterwards and the matrix.
getFrequencies(p, buffer, totalWidth, fftOk, bankOk, colorOk) ==
  analyseBuffer(prepareFilterBank(initializeFFT(p, buffer.sampleRate, fftOk),
                                  buffer.sampleRate, bankOk),
                buffer,
                inlineNoverlap(p.noverlap, p.fftSamples, Len(buffer.channelData[1]),
                               totalWidth),
                colorOk)

\* clearCache: the backends are freed and dropped.
clearCache(p) ==
  [p EXCEPT !.wasmFFT = None, !.wasmFilterBank = None, !.fft = NoFFT]

\* A channel of n equal samples: all its energy is in the lowest bin.
Steady(n) == [i \in 1..n |-> 5]

\* Decoded audio: one channel of 7 samples, or two channels of 9.
PluginBuffers ==
  {[sampleRate |-> 1000, channelData |-> <<Signal(7)>>],
   [sampleRate |-> 1000, channelData |-> <<Signal(9), Steady(9)>>]}
\* Display widths: getWidth() of 0 and of 5 pixels (2 fresh samples per pixel).
PluginWidths == {0, 5}
PluginOptions ==
  [useWasm : BOOLEAN, splitChannels : {TRUE}, fftSamples : {4}, noverlap : {None},
   windowFunc : {"rectangular"}, gainDB : {20, 0}, rangeDB : {80}, scale : Scales]

PluginInit ==
  /\ WorkerIdle
  /\ FrameIdle
  /\ QuantIdle
  /\ MatrixIdle
  /\ EngineIdle
  /\ plugin \in {SpectrogramPlugin(options) : options \in PluginOptions}
  /\ returned = <<>>
  /\ BankIdle
  /\ DrawIdle
  /\ TripIdle
  /\ RenderIdle
  /\ ScaleIdle
  /\ RafIdle
  /\ SegIdle

\* onInit: if (this.useWasm) this.initializeWasm(), and the redraw subscription.
onInit ==
  /\ plugin.wasmInit = "none"
  /\ plugin' = [plugin EXCEPT !.wasmInit = IF plugin.useWasm THEN "pending" ELSE "unused"]
  /\ UNCHANGED <<returned, exceptPlugin>>

\* wasmInit().then(...): this.isWasmAvailable = true
WasmInitResolved ==
  /\ plugin.wasmInit = "pending"
  /\ plugin' = [plugin EXCEPT !.wasmInit = "settled", !.isWasmAvailable = TRUE]
  /\ UNCHANGED <<returned, exceptPlugin>>

\* wasmInit().catch(...): this.isWasmAvailable = false
WasmInitRejected ==
  /\ plugin.wasmInit = "pending"
  /\ plugin' = [plugin EXCEPT !.wasmInit = "settled", !.isWasmAvailable = FALSE]
  /\ UNCHANGED <<returned, exceptPlugin>>

\* A getFrequencies call returned r.
Returned(buffer, totalWidth, r) ==
  /\ plugin' = r.plugin
  /\ returned' = Append(returned, [buffer |-> buffer, totalWidth |-> totalWidth,
                                   before |-> plugin, frequencies |-> r.frequencies])

\* render calls getFrequencies on the decoded audio.
GetFrequencies ==
  /\ plugin.wasmInit # "none"
  /\ Len(returned) < MaxReturns
  /\ \E buffer \in PluginBuffers, totalWidth \in PluginWidths,
        fftOk \in BOOLEAN, bankOk \in BOOLEAN, colorOk \in BOOLEAN :
       Returned(buffer, totalWidth,
                getFrequencies(plugin, buffer, totalWidth, fftOk, bankOk, colorOk))
  /\ UNCHANGED exceptPlugin

ClearCache ==
  /\ plugin' = clearCache(plugin)
  /\ plugin' # plugin
  /\ UNCHANGED <<returned, exceptPlugin>>

PluginNext == onInit \/ WasmInitResolved \/ WasmInitRejected \/ GetFrequencies \/ ClearCache

PluginSpec == PluginInit /\ [][PluginNext]_vars

----------------------------------------------------------------------------
(* Claims on the plugin's backends *)

\* The reference pipeline on one segment for plugin options p: the FFT, then
\* the scale's filter bank whenever the scale is not linear, then the
\* quantization with the configured gainDB and rangeDB.
ReferenceSpectrum(p, segment) ==
  calculateSpectrum(NewFFT(p.fftSamples, 0, p.windowFunc), segment).spectrum

ReferenceColumn(p, sampleRate, segment) ==
  convertSpectrumToColors(
    IF p.scale # "linear"
    THEN applyFilterBank(ReferenceSpectrum(p, segment),
                         createFilterBank(p.fftSamples \div 2, p.fftSamples, sampleRate,
                                          p.scale))
    ELSE ReferenceSpectrum(p, segment),
    p.gainDB, p.rangeDB)

\* Two columns of colour indices that differ by at most one intensity level.
WithinOneLevel(a, b) ==
  /\ Len(a) = Len(b)
  /\ \A j \in 1..Len(a) : Abs(a[j] - b[j]) <= 1

\* The stride of call k: fftSamples minus the overlap it derived.
StrideOf(k) ==
  returned[k].before.fftSamples
    - inlineNoverlap(returned[k].before.noverlap, returned[k].before.fftSamples,
                     Len(returned[k].buffer.channelData[1]), returned[k].totalWidth)

\* C17: whatever the accelerated backend does (initialisation failed, FFT
\* construction failed, filter-bank construction failed, all succeeded), every
\* column of every matrix that getFrequencies returned on the instance is
\* within one intensity level of the reference pipeline's column for the
\* same segment.
C17_BackendsAgree ==
  \A k \in 1..Len(returned) :
    \A c \in 1..Len(returned[k].frequencies) :
      \A n \in 1..Len(returned[k].frequencies[c]) :
        WithinOneLevel(
          returned[k].frequencies[c][n],
          ReferenceColumn(returned[k].before, returned[k].buffer.sampleRate,
                          Slice(returned[k].buffer.channelData[c],
                                (n - 1) * StrideOf(k),
                                (n - 1) * StrideOf(k) + returned[k].before.fftSamples)))

----------------------------------------------------------------------------
(* Claims on the implementations of the pipeline *)

\* The request that call k of getFrequencies served, as a worker receives it:
\* the same samples, the whole buffer as time range (in ms), the plugin's FFT
\* size, window, scale, gainDB and rangeDB, and the overlap the call used.
RequestOf(k) ==
  [startTime |-> 0,
   endTime |-> (Len(returned[k].buffer.channelData[1]) * 1000)
                 \div returned[k].buffer.sampleRate,
   sampleRate |-> returned[k].buffer.sampleRate,
   fftSamples |-> returned[k].before.fftSamples,
   windowFunc |-> returned[k].before.windowFunc,
   noverlap |-> Some(returned[k].before.fftSamples - StrideOf(k)),
   scale |-> returned[k].before.scale,
   gainDB |-> returned[k].before.gainDB,
   rangeDB |-> returned[k].before.rangeDB,
   splitChannels |-> returned[k].before.splitChannels]

\* What worker script w answers to the request of call k.
WorkerOutcome(k, w) ==
  calculateFrequencies(w, NoFFT, returned[k].buffer.channelData, RequestOf(k))

\* C18: the windowed worker, the spectrogram worker and the inline path give
\* the same outcome for the same request: where getFrequencies returned a
\* matrix on its JavaScript backend, either worker script returns that very
\* matrix (the same number of frames per channel, the same values) for the
\* same samples, range, FFT size, window, overlap, scale, gainDB and rangeDB.
C18_SameOutcomeEverywhere ==
  \A k \in 1..Len(returned) :
    ~returned[k].before.isWasmAvailable =>
      \A w \in Workers :
        /\ ~IsSome(WorkerOutcome(k, w).thrown)
        /\ WorkerOutcome(k, w).frequencies = returned[k].frequencies

----------------------------------------------------------------------------
(* A filter bank built and applied, as a state machine *)

\* Scales whose centre frequencies the model computes (see filterHz).
ModelledBankScales == {"mel", "logarithmic", "erb"}
\* FFT sizes with banks of one and of two filters.
BankFftSizes == {2, 4}
\* Sample rates from 500 Hz to 7 kHz: a weight is a count of thousandths, and
\* the weight 1 Hz / (sampleRate / fftSamples) of the lowest logarithmic filter
\* is at least one thousandth up to 2 kHz at fftSamples 2.
BankSampleRates == {500 * k : k \in 1..14}
\* Magnitude spectra of length n, in thousandths: all ones, and a ramp.
AllOnes(n) == [j \in 1..n |-> 1000]
BankSpectra(n) == {AllOnes(n), [j \in 1..n |-> 250 * j]}

BankInit ==
  /\ WorkerIdle
  /\ FrameIdle
  /\ QuantIdle
  /\ MatrixIdle
  /\ EngineIdle
  /\ PluginIdle
  /\ BankIdle
  /\ DrawIdle
  /\ TripIdle
  /\ RenderIdle
  /\ ScaleIdle
  /\ RafIdle
  /\ SegIdle

\* createFilterBankForScale(scale, fftSamples / 2, fftSamples, sampleRate), as
\* every caller builds its bank.
BuildBank ==
  /\ \E scale \in ModelledBankScales, fftSamples \in BankFftSizes,
        sampleRate \in BankSampleRates :
       builtBank' = Some([scale |-> scale, fftSamples |-> fftSamples,
                          sampleRate |-> sampleRate,
                          filterBank |-> createFilterBankForScale(
                                           scale, fftSamples \div 2, fftSamples,
                                           sampleRate)[1]])
  /\ logSpectrum' = None
  /\ UNCHANGED exceptBank

\* applyFilterBank(fftPoints, filterBank) on a spectrum of fftSamples / 2 bins.
ApplyBank ==
  /\ IsSome(builtBank)
  /\ \E fftPoints \in BankSpectra(builtBank[1].fftSamples \div 2) :
       logSpectrum' = Some([fftPoints |-> fftPoints,
                            values |-> applyFilterBank(fftPoints,
                                                       builtBank[1].filterBank)])
  /\ UNCHANGED <<builtBank, exceptBank>>

BankNext == BuildBank \/ ApplyBank

BankSpec == BankInit /\ [][BankNext]_vars

----------------------------------------------------------------------------
(* Claims on the filter bank *)

RECURSIVE SumOf(_)
SumOf(seq) == IF seq = <<>> THEN 0 ELSE Head(seq) + SumOf(Tail(seq))

\* C19: a bank built for any scale and applied to the all-ones spectrum of
\* length fftSamples / 2 returns entries that sum to numFilters (one per
\* filter, 1000 thousandths each), the same for every scale.
C19_UnitWeightPerFilter ==
  (/\ IsSome(logSpectrum)
   /\ logSpectrum[1].fftPoints = AllOnes(builtBank[1].fftSamples \div 2))
    => SumOf(logSpectrum[1].values) = 1000 * Len(builtBank[1].filterBank)

----------------------------------------------------------------------------
(* drawSpectrogram's choice of the data to render, as a state machine *)

\* Two matrices in [channel][sample][freq] format, one channel of four columns
\* of two bins each.
DrawMatrices ==
  {<< << <<10, 200>>, <<30, 180>>, <<50, 160>>, <<70, 140>> >> >>,
   << << <<0, 255>>, <<0, 255>>, <<90, 90>>, <<255, 0>> >> >>}
\* getWidth(): downsampling, the matrix's own width, upsampling.
DrawWidths == {2, 4, 6}

DrawInit ==
  /\ WorkerIdle
  /\ FrameIdle
  /\ QuantIdle
  /\ MatrixIdle
  /\ EngineIdle
  /\ PluginIdle
  /\ BankIdle
  /\ DrawIdle
  /\ TripIdle
  /\ RenderIdle
  /\ ScaleIdle
  /\ RafIdle
  /\ SegIdle

\* "Smart resampling based on zoom level": the data drawSpectrogram renders
\* and the cache afterwards. c is the cache before the call.
smartResample(c, frequenciesData, totalWidth) ==
  LET originalDataWidth == IF Len(frequenciesData) > 0 THEN Len(frequenciesData[1]) ELSE 0
      needsResampling == totalWidth # originalDataWidth
  IN IF ~needsResampling
     THEN [resampledData |-> frequenciesData, cache |-> c]
     ELSE IF IsSome(c.cachedResampledData) /\ c.cachedWidth = totalWidth
     THEN [resampledData |-> c.cachedResampledData[1], cache |-> c]
     ELSE [resampledData |-> efficientResample(frequenciesData, totalWidth, "quality").data,
           cache |-> [cachedResampledData |->
                        Some(efficientResample(frequenciesData, totalWidth, "quality").data),
                      cachedWidth |-> totalWidth]]

\* A drawSpectrogram call chose r.
Drawn(frequenciesData, totalWidth, r) ==
  /\ cache' = r.cache
  /\ drawn' = Append(drawn, [frequenciesData |-> frequenciesData,
                             totalWidth |-> totalWidth,
                             resampledData |-> r.resampledData])

\* drawSpectrogram(frequenciesData) at a wrapper width that is not 0.
drawSpectrogram ==
  /\ Len(drawn) < MaxDraws
  /\ \E frequenciesData \in DrawMatrices, totalWidth \in DrawWidths :
       Drawn(frequenciesData, totalWidth, smartResample(cache, frequenciesData, totalWidth))
  /\ UNCHANGED exceptDraw

\* clearCache: cachedResampledData = null, cachedWidth = 0
ClearDrawCache ==
  /\ cache # NoCache
  /\ cache' = NoCache
  /\ UNCHANGED <<drawn, exceptDraw>>

DrawNext == drawSpectrogram \/ ClearDrawCache

DrawSpec == DrawInit /\ [][DrawNext]_vars

----------------------------------------------------------------------------
(* Claims on the drawing *)

\* Resampling a matrix to the number of columns it has returns the matrix.
ResampleToOwnWidthIsNoOp ==
  \A k \in 1..Len(drawn) :
    drawn[k].totalWidth = Len(drawn[k].frequenciesData[1]) =>
      /\ drawn[k].resampledData = drawn[k].frequenciesData
      /\ efficientResample(drawn[k].frequenciesData, drawn[k].totalWidth, "quality").data
           = drawn[k].frequenciesData

\* Two draws of one matrix at one width rendered the same data.
SameMatrixSameData ==
  \A i, k \in 1..Len(drawn) :
    (/\ drawn[i].frequenciesData = drawn[k].frequenciesData
     /\ drawn[i].totalWidth = drawn[k].totalWidth)
      => drawn[i].resampledData = drawn[k].resampledData

\* C20: resampling is a no-op when the matrix already has targetWidth columns,
\* and drawing the same matrix twice at the same target width uses identical
\* resampled data.
C20_NoOpAndRepeatable == ResampleToOwnWidthIsNoOp /\ SameMatrixSameData

----------------------------------------------------------------------------
(* resampleChannel narrowing a matrix and widening the result back, as a    *)
(* state machine                                                            *)

\* Channel matrices of one frequency bin: n columns of a pattern that takes
\* the values 0 and 255 among others.
Ramp(n) == [i \in 1..n |-> <<(i * i * 7 + 13 * i) % 256>>]
Edges(n) == [i \in 1..n |-> <<IF i % 3 = 0 THEN 255 ELSE IF i % 5 = 0 THEN 0 ELSE (6 * i) % 256>>]
\* Widths with whole and fractional ratios, ratios above 8, and the widths
\* 30, 36 and 122 of the rounding tables.
TripWidths == {8, 12, 19, 30, 36, 122}
TripMatrices == {Ramp(n) : n \in TripWidths} \cup {Edges(n) : n \in TripWidths}

TripInit ==
  /\ WorkerIdle
  /\ FrameIdle
  /\ QuantIdle
  /\ MatrixIdle
  /\ EngineIdle
  /\ PluginIdle
  /\ BankIdle
  /\ DrawIdle
  /\ RenderIdle
  /\ ScaleIdle
  /\ RafIdle
  /\ SegIdle
  /\ tripFrom \in {Some([oldMatrix |-> m, performanceMode |-> mode]) :
                     m \in TripMatrices, mode \in PerformanceModes}
  /\ tripDown = None
  /\ tripUp = None

\* resampleChannel(oldMatrix, targetWidth) returned r for a width not above
\* the matrix's.
Narrowed(targetWidth, r) ==
  /\ tripDown' = Some([targetWidth |-> targetWidth, newMatrix |-> r.matrix])
  /\ tripUp' = None

Narrow ==
  /\ tripDown = None
  /\ \E targetWidth \in 1..Len(tripFrom[1].oldMatrix) :
       Narrowed(targetWidth,
                resampleChannel(tripFrom[1].oldMatrix, targetWidth,
                                tripFrom[1].performanceMode))
  /\ UNCHANGED <<tripFrom, exceptTrip>>

\* resampleChannel(newMatrix, width of the matrix started from) returned r.
Widened(r) == tripUp' = Some([newMatrix |-> r.matrix])

Widen ==
  /\ IsSome(tripDown)
  /\ tripUp = None
  /\ Widened(resampleChannel(tripDown[1].newMatrix, Len(tripFrom[1].oldMatrix),
                             tripFrom[1].performanceMode))
  /\ UNCHANGED <<tripFrom, tripDown, exceptTrip>>

TripNext == Narrow \/ Widen

TripSpec == TripInit /\ [][TripNext]_vars

----------------------------------------------------------------------------
(* Claims on the resampler *)

\* The matrix was narrowed by a whole ratio of at least 2 and widened back.
WholeRatioTrip ==
  /\ IsSome(tripUp)
  /\ tripDown[1].targetWidth < Len(tripFrom[1].oldMatrix)
  /\ Len(tripFrom[1].oldMatrix) % tripDown[1].targetWidth = 0

TripRatio == Len(tripFrom[1].oldMatrix) \div tripDown[1].targetWidth

\* The 0-based columns of the widened matrix that fall exactly on a column of
\* the narrowed one.
AlignedColumns ==
  {i \in 0..(Len(tripUp[1].newMatrix) - 1) : i % TripRatio = 0}

AllBytes(m) ==
  \A i \in 1..Len(m) : \A k \in 1..Len(m[i]) : m[i][k] \in 0..255

RealWindowStart(i, oldWidth, targetWidth) == (i * oldWidth) \div targetWidth
RealWindowEnd(i, oldWidth, targetWidth) ==
  Min(((i + 1) * oldWidth + targetWidth - 1) \div targetWidth, oldWidth)

\* C27: in quality mode a matrix narrowed to targetWidth (ratio >= 1) has
\* exactly targetWidth columns, and column i, bin k is the rounded mean of bin
\* k over the source columns floor(i * ratio) up to but excluding
\* min(ceil((i + 1) * ratio), oldWidth); the window lies in 0..oldWidth - 1
\* and every value lies in 0..255.
C27_QualityWindowMean ==
  (IsSome(tripDown) /\ tripFrom[1].performanceMode = "quality") =>
    /\ Len(tripDown[1].newMatrix) = tripDown[1].targetWidth
    /\ AllBytes(tripDown[1].newMatrix)
    /\ \A i \in 0..(tripDown[1].targetWidth - 1) :
         /\ 0 <= RealWindowStart(i, Len(tripFrom[1].oldMatrix), tripDown[1].targetWidth)
         /\ RealWindowStart(i, Len(tripFrom[1].oldMatrix), tripDown[1].targetWidth)
              < RealWindowEnd(i, Len(tripFrom[1].oldMatrix), tripDown[1].targetWidth)
         /\ \A k \in 1..Len(tripFrom[1].oldMatrix[1]) :
              tripDown[1].newMatrix[i + 1][k] =
                Round(SumBins(tripFrom[1].oldMatrix, k,
                              RealWindowStart(i, Len(tripFrom[1].oldMatrix),
                                              tripDown[1].targetWidth),
                              RealWindowEnd(i, Len(tripFrom[1].oldMatrix),
                                            tripDown[1].targetWidth)),
                      RealWindowEnd(i, Len(tripFrom[1].oldMatrix), tripDown[1].targetWidth)
                        - RealWindowStart(i, Len(tripFrom[1].oldMatrix),
                                          tripDown[1].targetWidth))

\* The 0-based source columns that output column i of a fast narrowing may
\* read, for ratio = oldWidth / targetWidth as a real number: at most 4
\* columns from floor(i * ratio), inside floor(i * ratio) up to but excluding
\* floor((i + 1) * ratio).
FastWindowEnd(i, oldWidth, targetWidth) ==
  Min(RealWindowStart(i + 1, oldWidth, targetWidth), oldWidth)
FastSampleCount(i, oldWidth, targetWidth) ==
  Min(4, FastWindowEnd(i, oldWidth, targetWidth) - RealWindowStart(i, oldWidth, targetWidth))

FastNarrowing ==
  /\ IsSome(tripDown)
  /\ tripFrom[1].performanceMode = "fast"
  /\ Len(tripFrom[1].oldMatrix) > 8 * tripDown[1].targetWidth

\* C28: in fast mode with ratio > 8, output column i is the rounded mean of
\* at most 4 source columns starting at floor(i * ratio), taken from the
\* window floor(i * ratio) up to but excluding floor((i + 1) * ratio); the
\* windows of distinct output columns do not overlap and no source index
\* lies outside 0..oldWidth - 1.
C28_FastWindowMean ==
  FastNarrowing =>
    \A i \in 0..(tripDown[1].targetWidth - 1) :
      /\ 0 <= RealWindowStart(i, Len(tripFrom[1].oldMatrix), tripDown[1].targetWidth)
      /\ FastWindowEnd(i, Len(tripFrom[1].oldMatrix), tripDown[1].targetWidth)
           <= Len(tripFrom[1].oldMatrix)
      /\ FastSampleCount(i, Len(tripFrom[1].oldMatrix), tripDown[1].targetWidth) \in 1..4
      /\ \A k \in 1..Len(tripFrom[1].oldMatrix[1]) :
           tripDown[1].newMatrix[i + 1][k] =
             Round(SumBins(tripFrom[1].oldMatrix, k,
                           RealWindowStart(i, Len(tripFrom[1].oldMatrix),
                                           tripDown[1].targetWidth),
                           RealWindowStart(i, Len(tripFrom[1].oldMatrix),
                                           tripDown[1].targetWidth)
                             + FastSampleCount(i, Len(tripFrom[1].oldMatrix),
                                               tripDown[1].targetWidth)),
                   FastSampleCount(i, Len(tripFrom[1].oldMatrix), tripDown[1].targetWidth))

----------------------------------------------------------------------------
(* The plugin's rendering on redraw events, as a state machine. A step is   *)
(* one macrotask of the page: an event of the wavesurfer, a timer callback, *)
(* a call of the application; render and fastRender are synchronous, so     *)
(* isRendering is true only inside such a step, where the 'ready' event of  *)
(* drawSpectrogram can run a listener that makes the wavesurfer redraw.     *)

\* wavesurfer.options.minPxPerSec: unset, or 100 pixels per second.
ZoomLevels == {0, 100}
\* getWidth() of the wavesurfer's wrapper.
RenderWidths == {2, 5}
\* The JSON of frequenciesDataUrl, in [channel, sample, freq] format.
LoadedMatrices == {<< << <<10, 200>>, <<30, 180>>, <<50, 160>>, <<70, 140>> >> >>}

\* The plugin after onInit, with the accelerated backend settled or unused.
RenderPlugins ==
  {[SpectrogramPlugin([useWasm |-> FALSE, splitChannels |-> TRUE, fftSamples |-> 4,
                       noverlap |-> None, windowFunc |-> "rectangular",
                       gainDB |-> 20, rangeDB |-> 80, scale |-> "linear"])
      EXCEPT !.wasmInit = "unused"],
   [SpectrogramPlugin([useWasm |-> TRUE, splitChannels |-> TRUE, fftSamples |-> 4,
                       noverlap |-> None, windowFunc |-> "rectangular",
                       gainDB |-> 20, rangeDB |-> 80, scale |-> "linear"])
      EXCEPT !.wasmInit = "settled", !.isWasmAvailable = TRUE]}

\* The cache and flag fields of the constructor, on a wavesurfer whose
\* decoded audio is decodedData; events counts the events of the wavesurfer
\* and the calls of the application so far.
RenderFields(decodedData) ==
  [decodedData |-> decodedData, minPxPerSec |-> 0, width |-> 5,
   cachedFrequencies |-> None, cachedBuffer |-> None, cache |-> NoCache,
   lastZoomLevel |-> 0, isRendering |-> FALSE, events |-> 0]

\* onInit: if (this.wavesurfer.getDecodedData()) setTimeout(() => this.throttledRender(), 0)
RenderInit ==
  /\ WorkerIdle
  /\ FrameIdle
  /\ QuantIdle
  /\ MatrixIdle
  /\ EngineIdle
  /\ plugin \in RenderPlugins
  /\ returned = <<>>
  /\ BankIdle
  /\ DrawIdle
  /\ TripIdle
  /\ \E decodedData \in {None} \cup {Some(b) : b \in PluginBuffers} :
       /\ view = RenderFields(decodedData)
       /\ timers = IF IsSome(decodedData)
                   THEN <<[callback |-> "throttledRender", isRenderTimeout |-> FALSE]>>
                   ELSE <<>>
  /\ shown = None
  /\ owed = FALSE
  /\ sinceClear = FALSE
  /\ ScaleIdle
  /\ RafIdle
  /\ SegIdle

\* zoomDiff < this.zoomThreshold, for the threshold 0.05 of the quality mode
smallZoomChange(v) ==
  100 * Abs(v.minPxPerSec - v.lastZoomLevel)
    < 5 * Max(Max(v.minPxPerSec, v.lastZoomLevel), 1)

\* clearTimeout(this.renderTimeout) on the pending timers t
clearRenderTimeout(t) == SelectSeq(t, LAMBDA timer : ~timer.isRenderTimeout)

\* throttledRender(): the pending timers afterwards.
throttledRender(v, t) ==
  IF v.isRendering THEN clearRenderTimeout(t)
  ELSE Append(clearRenderTimeout(t),
              [callback |-> IF smallZoomChange(v) /\ IsSome(v.cachedFrequencies)
                            THEN "fastRender" ELSE "render",
               isRenderTimeout |-> TRUE])

\* this.emit('ready') at the end of drawSpectrogram: a listener makes the
\* wavesurfer redraw (redraws), which runs throttledRender, or none does.
emitReady(v, t, redraws) == IF redraws THEN throttledRender(v, t) ELSE t

\* drawSpectrogram(frequenciesData) called by `by` on the fields v: the fields
\* and timers afterwards and the record of what was drawn, None for a width
\* of 0 ("Nothing to render").
drawFrom(by, v, t, frequenciesData, redraws, computed, fresh) ==
  IF v.width = 0 THEN [view |-> v, timers |-> t, shown |-> None, redrawn |-> FALSE]
  ELSE [view |-> [v EXCEPT !.cache = smartResample(v.cache, frequenciesData, v.width).cache],
        timers |-> emitReady(v, t, redraws),
        redrawn |-> redraws,
        shown |-> Some([by |-> by, decodedData |-> v.decodedData,
                        cachedBuffer |-> v.cachedBuffer,
                        frequenciesData |-> frequenciesData,
                        totalWidth |-> v.width,
                        resampledData |->
                          smartResample(v.cache, frequenciesData, v.width).resampledData,
                        computed |-> computed, fresh |-> fresh])]

\* Whether initializeFFT has to build an engine: no backend is left.
noEngine(p) == p.fft = NoFFT /\ ~IsSome(p.wasmFFT)

\* The else branch of render: "Calculate new frequencies and cache them",
\* r being what getFrequencies returned.
renderComputed(v, t, p, r, redraws) ==
  [plugin |-> r.plugin] @@
  drawFrom("render",
           [v EXCEPT !.cachedFrequencies = Some(r.frequencies),
                     !.cachedBuffer = v.decodedData],
           t, r.frequencies, redraws, TRUE, noEngine(p))

\* The body of render() between isRendering = true and the finally, without
\* frequenciesDataUrl; the constructors and calls of the accelerated backend
\* return.
renderBody(v, t, p, redraws) ==
  IF ~IsSome(v.decodedData)
  THEN [plugin |-> p, view |-> v, timers |-> t, shown |-> None, redrawn |-> FALSE]
  ELSE IF v.cachedBuffer = v.decodedData /\ IsSome(v.cachedFrequencies)
  THEN [plugin |-> p] @@ drawFrom("render", v, t, v.cachedFrequencies[1], redraws, FALSE, FALSE)
  ELSE renderComputed(v, t, p,
                      getFrequencies(p, v.decodedData[1], v.width, TRUE, TRUE, TRUE),
                      redraws)

\* this.lastZoomLevel = minPxPerSec || 0, and finally isRendering = false
rendered(r) ==
  [r EXCEPT !.view = [r.view EXCEPT !.lastZoomLevel = r.view.minPxPerSec,
                                    !.isRendering = FALSE]]

\* render(); it is only called by its timer, when isRendering is false.
render(v, t, p, redraws) ==
  rendered(renderBody([v EXCEPT !.isRendering = TRUE], t, p, redraws))

\* fastRender()
fastRender(v, t, p, redraws) ==
  IF ~IsSome(v.cachedFrequencies)
  THEN [plugin |-> p, view |-> v, timers |-> t, shown |-> None, redrawn |-> FALSE]
  ELSE rendered([plugin |-> p] @@
                drawFrom("fastRender", [v EXCEPT !.isRendering = TRUE], t,
                         v.cachedFrequencies[1], redraws, FALSE, FALSE))

\* The wavesurfer emits 'redraw' outside a render: the subscription of onInit
\* runs throttledRender.
Redraw ==
  /\ view.events < MaxEvents
  /\ view' = [view EXCEPT !.events = @ + 1]
  /\ timers' = throttledRender(view, timers)
  /\ owed' = TRUE
  /\ UNCHANGED <<shown, sinceClear, exceptRender>>

\* The application zooms or the wrapper is resized.
Zoom ==
  /\ view.events < MaxEvents
  /\ \E z \in ZoomLevels, w \in RenderWidths :
       /\ <<z, w>> # <<view.minPxPerSec, view.width>>
       /\ view' = [view EXCEPT !.minPxPerSec = z, !.width = w, !.events = @ + 1]
  /\ UNCHANGED <<timers, shown, owed, sinceClear, exceptRender>>

\* The wavesurfer decoded other audio: getDecodedData() returns a new buffer.
Decoded ==
  /\ view.events < MaxEvents
  /\ \E b \in PluginBuffers :
       /\ Some(b) # view.decodedData
       /\ view' = [view EXCEPT !.decodedData = Some(b), !.events = @ + 1]
  /\ UNCHANGED <<timers, shown, owed, sinceClear, exceptRender>>

\* The timer of onInit runs throttledRender.
InitTimerFires ==
  /\ \E k \in 1..Len(timers) :
       /\ timers[k].callback = "throttledRender"
       /\ timers' = throttledRender(view, SubSeq(timers, 1, k - 1)
                                            \o SubSeq(timers, k + 1, Len(timers)))
  /\ UNCHANGED <<view, shown, owed, sinceClear, exceptRender>>

\* A render or fastRender call ended as r: a draw of decoded audio by render
\* is the one that follows a clearCache, if one is waiting.
Rendered(r) ==
  /\ view' = r.view
  /\ plugin' = r.plugin
  /\ timers' = r.timers
  /\ owed' = r.redrawn
  /\ shown' = IF IsSome(r.shown)
              THEN Some([afterClear |-> r.shown[1].by = "render" /\ sinceClear]
                        @@ r.shown[1])
              ELSE shown
  /\ sinceClear' = (sinceClear /\ ~(IsSome(r.shown) /\ r.shown[1].by = "render"))

\* A timer of throttledRender runs its callback.
RenderTimerFires ==
  /\ \E k \in 1..Len(timers), redraws \in BOOLEAN :
       \/ /\ timers[k].callback = "render"
          /\ Rendered(render(view, SubSeq(timers, 1, k - 1)
                                     \o SubSeq(timers, k + 1, Len(timers)),
                             plugin, redraws))
       \/ /\ timers[k].callback = "fastRender"
          /\ Rendered(fastRender(view, SubSeq(timers, 1, k - 1)
                                         \o SubSeq(timers, k + 1, Len(timers)),
                                 plugin, redraws))
  /\ UNCHANGED <<returned, workerVars, frameVars, quantVars, matrixVars, engineVars,
                 bankVars, drawVars, tripVars,
                 scaleVars, rafVars, segVars>>

\* The application calls clearCache().
ClearCaches ==
  /\ view.events < MaxEvents
  /\ view' = [view EXCEPT !.cachedFrequencies = None, !.cachedBuffer = None,
                          !.cache = NoCache, !.lastZoomLevel = 0, !.events = @ + 1]
  /\ plugin' = clearCache(plugin)
  /\ sinceClear' = TRUE
  /\ UNCHANGED <<timers, shown, owed, returned, workerVars, frameVars, quantVars,
                 matrixVars, engineVars, bankVars, drawVars, tripVars, scaleVars,
                 rafVars, segVars>>

\* loadFrequenciesData(url) of the application: the fetch resolved with data
\* and drawSpectrogram(data) ran.
Loaded(r) ==
  /\ view' = [r.view EXCEPT !.events = @ + 1]
  /\ timers' = r.timers
  /\ owed' = (owed \/ r.redrawn)
  /\ shown' = IF IsSome(r.shown) THEN Some([afterClear |-> FALSE] @@ r.shown[1]) ELSE shown

LoadFrequenciesData ==
  /\ view.events < MaxEvents
  /\ \E data \in LoadedMatrices, redraws \in BOOLEAN :
       Loaded(drawFrom("loadFrequenciesData", view, timers, data, redraws, FALSE, FALSE))
  /\ UNCHANGED <<sinceClear, exceptRender>>

RenderNext ==
  \/ Redraw
  \/ Zoom
  \/ Decoded
  \/ InitTimerFires
  \/ RenderTimerFires
  \/ ClearCaches
  \/ LoadFrequenciesData

RenderSpec == RenderInit /\ [][RenderNext]_vars

----------------------------------------------------------------------------
(* Claims on the rendering *)

\* C25: whenever the plugin draws a spectrogram from decoded audio, by render
\* or by fastRender, the matrix it draws was computed from the buffer that is
\* decoded at that time, never from a previous buffer.
C25_MatrixOfCurrentBuffer ==
  (IsSome(shown) /\ shown[1].by \in {"render", "fastRender"}) =>
    shown[1].cachedBuffer = shown[1].decodedData

\* C26: in every drawSpectrogram call the resampled data that is drawn is the
\* resample, at the current total width, of the matrix passed to that call.
C26_ResampleOfMatrixPassed ==
  IsSome(shown) =>
    shown[1].resampledData =
      efficientResample(shown[1].frequenciesData, shown[1].totalWidth, "quality").data

\* C23: the first render of decoded audio that draws after a clearCache()
\* recomputed the matrix, with an FFT engine built in that call, and drew
\* that matrix resampled to the current width, nothing from a cache.
C23_FreshAfterClearCache ==
  (IsSome(shown) /\ shown[1].afterClear) =>
    /\ shown[1].computed
    /\ shown[1].fresh
    /\ shown[1].cachedBuffer = shown[1].decodedData
    /\ shown[1].resampledData =
         efficientResample(shown[1].frequenciesData, shown[1].totalWidth, "quality").data

\* The timers whose callback is render or fastRender.
RenderTimers == SelectSeq(timers, LAMBDA timer : timer.callback # "throttledRender")

\* C29: at most one render timer is pending at any time, and every redraw
\* event is followed by a render or fastRender that starts after it, also
\* when the event arrives while a render is in progress: render and
\* fastRender are started by timers only, so as long as a redraw event has
\* not been followed by one, a timer is pending.
C29_OneTimerAndRenderFollows ==
  /\ Len(RenderTimers) <= 1
  /\ owed => timers # <<>>

----------------------------------------------------------------------------
(* Frequency scales of the fft module. A frequency and a scale value are    *)
(* fractions <<numerator, denominator>> in lowest terms, so the arithmetic  *)
(* of the bark scale is that of the reals; the rounding of the doubles,     *)
(* around 1e-12 for these magnitudes, is not represented. Math.log10 is     *)
(* taken at the whole powers of ten, where it is a whole number, and        *)
(* Math.pow(10, x) at whole x. A value of the erb scale is counted in       *)
(* multiples of ERB_A.                                                      *)

RECURSIVE GCD(_, _)
GCD(a, b) == IF b = 0 THEN Abs(a) ELSE GCD(b, a % b)

Frac(n, d) == <<n \div GCD(n, d), d \div GCD(n, d)>>
Whole(n) == <<n, 1>>
FMul(x, y) ==
  Frac((x[1] \div GCD(x[1], y[2])) * (y[1] \div GCD(y[1], x[2])),
       (x[2] \div GCD(y[1], x[2])) * (y[2] \div GCD(x[1], y[2])))
FDiv(x, y) == FMul(x, IF y[1] < 0 THEN <<-y[2], -y[1]>> ELSE <<y[2], y[1]>>)
FAdd(x, y) ==
  Frac(x[1] * (y[2] \div GCD(x[2], y[2])) + y[1] * (x[2] \div GCD(x[2], y[2])),
       x[2] * (y[2] \div GCD(x[2], y[2])))
FSub(x, y) == FAdd(x, <<-y[1], y[2]>>)
FLess(x, y) == x[1] * (y[2] \div GCD(x[2], y[2])) < y[1] * (x[2] \div GCD(x[2], y[2]))

\* Math.pow(10, x) for a whole x >= 0
RECURSIVE Pow10(_)
Pow10(x) == IF x[1] = 0 THEN Whole(1) ELSE FMul(Whole(10), Pow10(Whole(x[1] - 1)))

\* Math.log10(x) for x a whole power of ten
Log10(x) == Whole(CHOOSE k \in 0..5 : Pow10(Whole(k)) = x)

hzToMel(hz) == FMul(Whole(2595), Log10(FAdd(Whole(1), FDiv(hz, Whole(700)))))
melToHz(mel) == FMul(Whole(700), FSub(Pow10(FDiv(mel, Whole(2595))), Whole(1)))

hzToLog(hz) == Log10(IF FLess(hz, Whole(1)) THEN Whole(1) ELSE hz)
logToHz(log) == Pow10(log)

\* if (bark < 2) bark += 0.15 * (2 - bark); if (bark > 20.1) bark += 0.22 * (bark - 20.1)
barkCorrected(bark) ==
  IF FLess(bark, Whole(2))
  THEN FAdd(bark, FMul(Frac(15, 100), FSub(Whole(2), bark)))
  ELSE IF FLess(Frac(201, 10), bark)
  THEN FAdd(bark, FMul(Frac(22, 100), FSub(bark, Frac(201, 10))))
  ELSE bark

hzToBark(hz) ==
  barkCorrected(FSub(FDiv(FMul(Frac(2681, 100), hz), FAdd(Whole(1960), hz)),
                     Frac(53, 100)))

\* if (bark < 2) bark = (bark - 0.3) / 0.85; if (bark > 20.1) bark = (bark + 4.422) / 1.22
barkUncorrected(bark) ==
  IF FLess(bark, Whole(2))
  THEN FDiv(FSub(bark, Frac(3, 10)), Frac(85, 100))
  ELSE IF FLess(Frac(201, 10), bark)
  THEN FDiv(FAdd(bark, Frac(4422, 1000)), Frac(122, 100))
  ELSE bark

\* The mutant: the correction below 2 is not undone.
barkToHzCorrectedBelow(bark) ==
  FMul(Whole(1960),
       FDiv(FAdd(IF FLess(bark, Whole(2)) THEN bark ELSE barkUncorrected(bark),
                 Frac(53, 100)),
            FSub(Frac(2628, 100),
                 IF FLess(bark, Whole(2)) THEN bark ELSE barkUncorrected(bark))))
barkToHz(bark) ==
  FMul(Whole(1960),
       FDiv(FAdd(barkUncorrected(bark), Frac(53, 100)),
            FSub(Frac(2628, 100), barkUncorrected(bark))))

hzToErb(hz) == Log10(FAdd(Whole(1), FMul(hz, Frac(437, 100000))))
erbToHz(erb) == FDiv(FSub(Pow10(erb), Whole(1)), Frac(437, 100000))

hzToScale(hz, scale) ==
  CASE scale = "mel" -> hzToMel(hz)
    [] scale = "logarithmic" -> hzToLog(hz)
    [] scale = "bark" -> hzToBark(hz)
    [] scale = "erb" -> hzToErb(hz)
    [] OTHER -> hz

scaleToHz(scaleValue, scaleType) ==
  CASE scaleType = "mel" -> melToHz(scaleValue)
    [] scaleType = "logarithmic" -> logToHz(scaleValue)
    [] scaleType = "bark" -> barkToHz(scaleValue)
    [] scaleType = "erb" -> erbToHz(scaleValue)
    [] OTHER -> scaleValue

\* Frequencies from 0 to the Nyquist frequency of audio sampled at 192 kHz:
\* for the bark scale on both sides of its two corrections (bark 2 is near
\* 204 Hz, bark 20.1 near 6543 Hz), for the scales with a logarithm where
\* that is a whole number, and below 1 Hz for the logarithmic scale.
NyquistHz == Whole(96000)
ScaleFrequencies(scale) ==
  CASE scale = "mel" -> {Whole(0), Whole(6300), Whole(69300)}
    [] scale = "logarithmic" ->
         {Whole(0), Frac(1, 2), Whole(1), Whole(10), Whole(100), Whole(1000), Whole(10000)}
    [] scale = "bark" ->
         {Whole(0), Whole(40), Whole(100), Whole(204), Whole(205), Whole(540),
          Frac(4405, 10), Whole(2040), Whole(6040), Whole(6543), Whole(6544),
          Whole(8040), Whole(18040), Whole(22050), Whole(48000), Whole(96000)}
    [] scale = "erb" -> {Whole(0), Frac(900000, 437), Frac(9900000, 437)}
    [] OTHER -> {Whole(0), Frac(1, 2), Whole(1), Whole(440), Whole(22050), Whole(96000)}
AllScales == {"linear", "logarithmic", "mel", "bark", "erb"}

ScaleInit ==
  /\ WorkerIdle
  /\ FrameIdle
  /\ QuantIdle
  /\ MatrixIdle
  /\ EngineIdle
  /\ PluginIdle
  /\ BankIdle
  /\ DrawIdle
  /\ TripIdle
  /\ RenderIdle
  /\ RafIdle
  /\ SegIdle
  /\ \E scale \in AllScales :
       \E hz \in ScaleFrequencies(scale) :
         conv = Some([scale |-> scale, hz |-> hz, scaleValue |-> None, backHz |-> None])

\* hzToScale(hz, scale) returned.
HzToScale ==
  /\ conv[1].scaleValue = None
  /\ conv' = Some([conv[1] EXCEPT !.scaleValue = Some(hzToScale(conv[1].hz, conv[1].scale))])
  /\ UNCHANGED exceptScale

\* scaleToHz(that value, scale) returned.
ScaleToHz ==
  /\ IsSome(conv[1].scaleValue)
  /\ conv[1].backHz = None
  /\ conv' = Some([conv[1] EXCEPT !.backHz = Some(scaleToHz(conv[1].scaleValue[1],
                                                             conv[1].scale))])
  /\ UNCHANGED exceptScale

ScaleNext == HzToScale \/ ScaleToHz

ScaleSpec == ScaleInit /\ [][ScaleNext]_vars

----------------------------------------------------------------------------
(* Claims on the frequency scales *)

\* C24 as stated: for every supported scale and every hz from 0 to the
\* Nyquist frequency, converting to scale units and back returns hz.
C24_RoundTrip ==
  (IsSome(conv) /\ IsSome(conv[1].backHz)) => conv[1].backHz[1] = conv[1].hz

\* C24 amended: converting to scale units and back returns hz, also across
\* the corrections of the bark scale below 2 and above 20.1, except on the
\* logarithmic scale below 1 Hz, where it returns 1 Hz.
C24_RoundTripFromOneHz ==
  (IsSome(conv) /\ IsSome(conv[1].backHz)) =>
    conv[1].backHz[1] =
      IF conv[1].scale = "logarithmic" /\ FLess(conv[1].hz, Whole(1))
      THEN Whole(1) ELSE conv[1].hz

\* A frequency up to the Nyquist frequency was converted to a bark value
\* beyond one of the two corrections, and back.
C24_Witness ==
  /\ IsSome(conv)
  /\ IsSome(conv[1].backHz)
  /\ conv[1].scale = "bark"
  /\ \/ FLess(Frac(201, 10), conv[1].scaleValue[1])
     \/ FLess(conv[1].scaleValue[1], Whole(2))
  /\ ~FLess(NyquistHz, conv[1].hz)

----------------------------------------------------------------------------
(* The Timer of the player, as a state machine. A step is a call of the     *)
(* application outside a callback, or one animation-frame callback with the *)
(* 'tick' listeners it runs.                                                *)

\* requestAnimationFrame(tick): a new id, scheduled, and kept in rafId by the
\* two callers.
requestAnimationFrame(t) ==
  [rafId |-> Some(t.requested + 1),
   scheduled |-> t.scheduled \cup {t.requested + 1},
   requested |-> t.requested + 1]

\* start()
start(t) == IF t.rafId # None THEN t ELSE requestAnimationFrame(t)

\* stop(): cancelAnimationFrame of an id whose callback already runs or ran
\* cancels nothing.
stop(t) ==
  IF t.rafId # None
  THEN [t EXCEPT !.scheduled = @ \ {t.rafId[1]}, !.rafId = None]
  ELSE t

\* What a 'tick' listener calls on the timer.
Listeners == {"nothing", "stop", "start", "stop and start"}

\* this.emit('tick') with a listener of that kind
emitTick(t, listener) ==
  CASE listener = "stop" -> stop(t)
    [] listener = "start" -> start(t)
    [] listener = "stop and start" -> start(stop(t))
    [] OTHER -> t

\* The callback tick of start()
tick(t, listener) == requestAnimationFrame(emitTick(t, listener))

\* new Timer()
RafInit ==
  /\ WorkerIdle
  /\ FrameIdle
  /\ QuantIdle
  /\ MatrixIdle
  /\ EngineIdle
  /\ PluginIdle
  /\ BankIdle
  /\ DrawIdle
  /\ TripIdle
  /\ RenderIdle
  /\ ScaleIdle
  /\ SegIdle
  /\ ticker = Some([rafId |-> None, scheduled |-> {}, requested |-> 0])
  /\ stopped = FALSE
  /\ lateTick = FALSE

\* The application calls start().
Start ==
  /\ ticker[1].requested < MaxRequested
  /\ ticker' = Some(start(ticker[1]))
  /\ stopped' = FALSE
  /\ <<ticker', stopped'>> # <<ticker, stopped>>
  /\ UNCHANGED <<lateTick, exceptRaf>>

\* The application calls stop().
Stop ==
  /\ ticker' = Some(stop(ticker[1]))
  /\ stopped' = TRUE
  /\ <<ticker', stopped'>> # <<ticker, stopped>>
  /\ UNCHANGED <<lateTick, exceptRaf>>

\* The page runs the callback of a scheduled animation frame.
AnimationFrame ==
  /\ ticker[1].requested + 2 <= MaxRequested
  /\ \E id \in ticker[1].scheduled, listener \in Listeners :
       /\ ticker' = Some(tick([ticker[1] EXCEPT !.scheduled = @ \ {id}], listener))
       /\ stopped' = CASE listener = "stop" -> TRUE
                       [] listener \in {"start", "stop and start"} -> FALSE
                       [] OTHER -> stopped
  /\ lateTick' = (lateTick \/ stopped)
  /\ UNCHANGED exceptRaf

RafNext == Start \/ Stop \/ AnimationFrame

RafSpec == RafInit /\ [][RafNext]_vars

----------------------------------------------------------------------------
(* Claims on the Timer *)

\* C30: after stop() returned, also from inside a 'tick' listener, and until
\* start() is called again, no animation frame stays scheduled and no 'tick'
\* is emitted.
C30_StoppedTimerIsQuiet ==
  /\ stopped => ticker[1].scheduled = {}
  /\ ~lateTick

----------------------------------------------------------------------------
(* The segment manager of the windowed plugin, as a state machine. A sample *)
(* range <<a, b>> holds the samples a .. b - 1.                             *)

SampleRanges == {<<a, b>> \in (0..AudioSamples) \X (0..AudioSamples) : a < b}

\* The mutant: the segments that exist are not looked at.
uncoveredOfNone(segs, range) == range[1]..(range[2] - 1)

\* The samples of the desired range that no existing segment covers.
uncovered(segs, range) ==
  {n \in range[1]..(range[2] - 1) :
     \A g \in segs : ~(g.startSample <= n /\ n < g.endSample)}

\* The uncovered sub-ranges: the maximal runs of uncovered samples.
subRanges(samples) ==
  {r \in SampleRanges :
     /\ \A n \in r[1]..(r[2] - 1) : n \in samples
     /\ (r[1] - 1) \notin samples
     /\ r[2] \notin samples}

\* "for any uncovered sub-range, synthesize a Segment"
synthesized(segs, range) ==
  {[startSample |-> r[1], endSample |-> r[2], state |-> "pending"] :
     r \in subRanges(uncovered(segs, range))}

\* "segments fully outside the desired range plus margin"
evictable(g, range) ==
  g.endSample <= range[1] - Margin \/ g.startSample >= range[2] + Margin

\* A visibility change to the desired sample range: the segments afterwards.
visibilityChange(segs, range) ==
  {g \in segs : ~evictable(g, range)} \cup synthesized(segs, range)

SegInit ==
  /\ WorkerIdle
  /\ FrameIdle
  /\ QuantIdle
  /\ MatrixIdle
  /\ EngineIdle
  /\ PluginIdle
  /\ BankIdle
  /\ DrawIdle
  /\ TripIdle
  /\ RenderIdle
  /\ ScaleIdle
  /\ RafIdle
  /\ segments = {}
  /\ visible = None

\* The view scrolls or zooms to a range.
VisibilityChange ==
  /\ \E range \in SampleRanges :
       /\ segments' = visibilityChange(segments, range)
       /\ visible' = Some([range |-> range,
                           readyBefore |-> {g \in segments : g.state = "ready"},
                           created |-> synthesized(segments, range)])
  /\ UNCHANGED exceptSeg

\* The pipeline starts on a pending segment.
StartSegment ==
  /\ \E g \in segments :
       /\ g.state = "pending"
       /\ segments' = (segments \ {g}) \cup {[g EXCEPT !.state = "computing"]}
  /\ UNCHANGED <<visible, exceptSeg>>

\* The pipeline delivered the matrix of a segment.
FinishSegment ==
  /\ \E g \in segments :
       /\ g.state = "computing"
       /\ segments' = (segments \ {g}) \cup {[g EXCEPT !.state = "ready"]}
  /\ UNCHANGED <<visible, exceptSeg>>

SegNext == VisibilityChange \/ StartSegment \/ FinishSegment

SegSpec == SegInit /\ [][SegNext]_vars

----------------------------------------------------------------------------
(* Claims on the segment manager *)

\* The segments that were ready before the last visibility change.
ReadyBefore == visible[1].readyBefore

\* C22: a request for a visible range that lies fully inside a segment that
\* is ready creates no segment, so that no frame is computed for it, and the
\* sample range of every segment a request creates is disjoint from the
\* sample range of every segment that was ready.
C22_NoRecomputation ==
  IsSome(visible) =>
    /\ (\E g \in ReadyBefore :
          g.startSample <= visible[1].range[1] /\ visible[1].range[2] <= g.endSample)
         => visible[1].created = {}
    /\ \A new \in visible[1].created, g \in ReadyBefore :
         new.endSample <= g.startSample \/ g.endSample <= new.startSample

\* A request overlapped a ready segment without lying inside it, and created
\* a segment next to it.
C22_Witness ==
  /\ IsSome(visible)
  /\ visible[1].created # {}
  /\ \E g \in ReadyBefore :
       /\ g.startSample < visible[1].range[2]
       /\ visible[1].range[1] < g.endSample

====
